---- MODULE Spec2Model ----
(***************************************************************************)
(* Verification model of blossom_espelhator: the hash-to-servers cache     *)
(* (package cache), the per-server statistics tracker (package stats) and  *)
(* the fan-out operations of the upstream manager (package upstream).      *)
(***************************************************************************)
EXTENDS Integers, Sequences, FiniteSets, TLC

\* ------------------------------------------------------------------------
\* Bounds of the model
\* ------------------------------------------------------------------------

\* The clock of the cache runs from 0 to MaxTime.
MaxTime == 3

\* Server lists handed to Cache.Add have at most MaxListLen elements.
MaxListLen == 2

\* The tracker's counters add up to at most MaxRecords.
MaxRecords == 2

\* A server's streak of consecutive failures is followed up to MaxStreak.
MaxStreak == 3

\* The client body of a streaming upload has at most MaxBody chunks.
MaxBody == 2

\* Selections are followed while the round-robin index is below MaxPicks.
MaxPicks == 3

\* The handlers receive at most MaxRequests requests.
MaxRequests == 2

\* The servers' catalogs hold at most MaxItems items together.
MaxItems == 2

\* ------------------------------------------------------------------------
\* package cache  (src/unnamed/part_001)
\* ------------------------------------------------------------------------

\* Number of leading characters of a path that form the hash.
HashLen == 64

\* Cache.ttl and Cache.maxSize, fixed by cache.New.
ttl == 1
maxSize == 2

\* Upstream server URLs that appear in cache entries.
URLs == {"P1", "P2"}

\* A digest, the digest followed by an extension, a path one character short of
\* the digest, the empty path.
DigestA == [i \in 1..HashLen |-> "a"]
EmptyPath == << >>
Paths ==
  { DigestA, DigestA \o <<".", "x">>, SubSeq(DigestA, 1, HashLen - 1), EmptyPath }

RECURSIVE SeqsUpTo(_, _)
SeqsUpTo(S, n) ==
  IF n = 0 THEN { << >> }
  ELSE LET shorter == SeqsUpTo(S, n - 1)
       IN shorter \cup { Append(s, x) : s \in { t \in shorter : Len(t) = n - 1 }, x \in S }

ServerLists == SeqsUpTo(URLs, MaxListLen)

DigestPaths == { DigestA, DigestA \o <<".", "x">> }

VARIABLES
  items,     \* Cache.items: hash -> cacheEntry
  now,       \* the wall clock read by time.Now()
  lastCall   \* the last cache call: operation, arguments, return path and result

cacheVars == <<items, now, lastCall>>

\* extractHash without the truncation: the path is the key.
extractHashWhole(path) == path

\* extractHash: the first 64 characters of the path, or the whole path if shorter.
extractHash(path) ==
  IF Len(path) >= HashLen THEN SubSeq(path, 1, HashLen) ELSE path

\* An expiry test that measures from the last access instead of the creation.
ExpiredSinceAccess(entry, t) == ttl > 0 /\ t - entry.lastAccess > ttl

\* The expiry test shared by evictOldest, Get, AddServer and RemoveServer.
Expired(entry, t) == ttl > 0 /\ t - entry.createdAt > ttl

NewEntry(servers, t) == [servers |-> servers, createdAt |-> t, lastAccess |-> t]

Without(its, hash) == [k \in DOMAIN its \ {hash} |-> its[k]]

With(its, hash, entry) == [k \in DOMAIN its \cup {hash} |-> IF k = hash THEN entry ELSE its[k]]

\* evictOldest: the maps it can leave behind. The range loops over a Go map run
\* in an unspecified order, so any entry of smallest lastAccess can be the one
\* the LRU scan settles on; the scan's result is deleted unless it is "".
evictOldest(its, t) ==
  IF Cardinality(DOMAIN its) < maxSize THEN { its }
  ELSE LET live == { k \in DOMAIN its : ~Expired(its[k], t) }
           swept == [k \in live |-> its[k]]
           oldest == { k \in live : \A j \in live : ~(its[j].lastAccess < its[k].lastAccess) }
       IN IF Cardinality(live) >= maxSize
          THEN { IF oldestHash # EmptyPath THEN Without(swept, oldestHash) ELSE swept :
                   oldestHash \in oldest }
          ELSE { swept }

NoResult == [ok |-> FALSE, servers |-> << >>]

\* What a call leaves in lastCall: the operation, its path and list or server
\* argument, the return statement it left by, and what it returned.
Call(op, path, arg, branch, ret) ==
  [op |-> op, path |-> path, arg |-> arg, branch |-> branch, ret |-> ret]

\* Cache.Add
Add(path, servers) ==
  LET hash == extractHash(path)
      full == hash \notin DOMAIN items /\ Cardinality(DOMAIN items) >= maxSize
  IN /\ \E evicted \in ( IF full THEN evictOldest(items, now) ELSE { items } ) :
          items' = With(evicted, hash, NewEntry(servers, now))
     /\ lastCall' = Call("Add", path, servers, IF full THEN "evict" ELSE "store", NoResult)
     /\ UNCHANGED now

\* A Get whose hit starts the lifetime of the entry anew.
GetRenewing(path) ==
  LET hash == extractHash(path)
  IN /\ IF hash \notin DOMAIN items
        THEN /\ items' = items
             /\ lastCall' = Call("Get", path, << >>, "miss", NoResult)
        ELSE IF Expired(items[hash], now)
        THEN /\ items' = Without(items, hash)
             /\ lastCall' = Call("Get", path, << >>, "expired", NoResult)
        ELSE /\ items' = [items EXCEPT ![hash].lastAccess = now, ![hash].createdAt = now]
             /\ lastCall' = Call("Get", path, << >>, "hit",
                                 [ok |-> TRUE, servers |-> items[hash].servers])
     /\ UNCHANGED now

\* Cache.Get
Get(path) ==
  LET hash == extractHash(path)
  IN /\ IF hash \notin DOMAIN items
        THEN /\ items' = items
             /\ lastCall' = Call("Get", path, << >>, "miss", NoResult)
        ELSE IF Expired(items[hash], now)
        THEN /\ items' = Without(items, hash)
             /\ lastCall' = Call("Get", path, << >>, "expired", NoResult)
        ELSE /\ items' = [items EXCEPT ![hash].lastAccess = now]
             /\ lastCall' = Call("Get", path, << >>, "hit",
                                 [ok |-> TRUE, servers |-> items[hash].servers])
     /\ UNCHANGED now

\* Cache.Remove
Remove(path) ==
  /\ items' = Without(items, extractHash(path))
  /\ lastCall' = Call("Remove", path, << >>, "remove", NoResult)
  /\ UNCHANGED now

\* AddServer without the "server already exists" scan.
AddServerAlways(path, server) ==
  LET hash == extractHash(path)
  IN /\ IF hash \notin DOMAIN items
        THEN LET full == Cardinality(DOMAIN items) >= maxSize
             IN /\ \E evicted \in ( IF full THEN evictOldest(items, now) ELSE { items } ) :
                     items' = With(evicted, hash, NewEntry(<<server>>, now))
                /\ lastCall' = Call("AddServer", path, <<server>>,
                                    IF full THEN "evict" ELSE "store", NoResult)
        ELSE IF Expired(items[hash], now)
        THEN /\ items' = With(items, hash, NewEntry(<<server>>, now))
             /\ lastCall' = Call("AddServer", path, <<server>>, "expired", NoResult)
        ELSE /\ items' = [items EXCEPT ![hash].servers = Append(@, server),
                                       ![hash].lastAccess = now]
             /\ lastCall' = Call("AddServer", path, <<server>>, "append", NoResult)
     /\ UNCHANGED now

\* Cache.AddServer
AddServer(path, server) ==
  LET hash == extractHash(path)
  IN /\ IF hash \notin DOMAIN items
        THEN LET full == Cardinality(DOMAIN items) >= maxSize
             IN /\ \E evicted \in ( IF full THEN evictOldest(items, now) ELSE { items } ) :
                     items' = With(evicted, hash, NewEntry(<<server>>, now))
                /\ lastCall' = Call("AddServer", path, <<server>>,
                                    IF full THEN "evict" ELSE "store", NoResult)
        ELSE IF Expired(items[hash], now)
        THEN /\ items' = With(items, hash, NewEntry(<<server>>, now))
             /\ lastCall' = Call("AddServer", path, <<server>>, "expired", NoResult)
        ELSE IF \E i \in 1..Len(items[hash].servers) : items[hash].servers[i] = server
        THEN /\ items' = [items EXCEPT ![hash].lastAccess = now]
             /\ lastCall' = Call("AddServer", path, <<server>>, "present", NoResult)
        ELSE /\ items' = [items EXCEPT ![hash].servers = Append(@, server),
                                       ![hash].lastAccess = now]
             /\ lastCall' = Call("AddServer", path, <<server>>, "append", NoResult)
     /\ UNCHANGED now

\* The servers of a list other than the given one, in order.
RemoveFrom(servers, server) == SelectSeq(servers, LAMBDA s : s # server)

\* RemoveServer without the deletion of an entry whose list became empty.
RemoveServerKeep(path, server) ==
  LET hash == extractHash(path)
  IN /\ IF hash \notin DOMAIN items
        THEN /\ items' = items
             /\ lastCall' = Call("RemoveServer", path, <<server>>, "miss", NoResult)
        ELSE IF Expired(items[hash], now)
        THEN /\ items' = Without(items, hash)
             /\ lastCall' = Call("RemoveServer", path, <<server>>, "expired", NoResult)
        ELSE /\ items' = [items EXCEPT ![hash].servers = RemoveFrom(@, server),
                                       ![hash].lastAccess = now]
             /\ lastCall' = Call("RemoveServer", path, <<server>>, "kept", NoResult)
     /\ UNCHANGED now

\* Cache.RemoveServer
RemoveServer(path, server) ==
  LET hash == extractHash(path)
  IN /\ IF hash \notin DOMAIN items
        THEN /\ items' = items
             /\ lastCall' = Call("RemoveServer", path, <<server>>, "miss", NoResult)
        ELSE IF Expired(items[hash], now)
        THEN /\ items' = Without(items, hash)
             /\ lastCall' = Call("RemoveServer", path, <<server>>, "expired", NoResult)
        ELSE LET newServers == RemoveFrom(items[hash].servers, server)
             IN IF Len(newServers) = 0
                THEN /\ items' = Without(items, hash)
                     /\ lastCall' = Call("RemoveServer", path, <<server>>, "emptied", NoResult)
                ELSE /\ items' = [items EXCEPT ![hash].servers = newServers,
                                               ![hash].lastAccess = now]
                     /\ lastCall' = Call("RemoveServer", path, <<server>>, "kept", NoResult)
     /\ UNCHANGED now

\* Time passes between two cache calls.
Tick ==
  /\ now < MaxTime
  /\ now' = now + 1
  /\ UNCHANGED <<items, lastCall>>

\* cache.New: an empty map.
CacheInit ==
  /\ items = << >>
  /\ now = 0
  /\ lastCall = Call("New", EmptyPath, << >>, "new", NoResult)

\* Calls on every path, with one server: the keys and the clock vary.
CacheAdd == \E path \in Paths : Add(path, <<"P1">>)
CacheGet == \E path \in Paths : Get(path)
CacheRemove == \E path \in Paths : Remove(path)
CacheAddServer == \E path \in Paths : AddServer(path, "P1")
CacheRemoveServer == \E path \in Paths : RemoveServer(path, "P1")

CacheNext ==
  \/ CacheAdd
  \/ CacheGet
  \/ CacheRemove
  \/ CacheAddServer
  \/ CacheRemoveServer
  \/ Tick

\* Calls on one digest, with and without extension, with every server list.
ListAdd == \E path \in DigestPaths, servers \in ServerLists : Add(path, servers)
ListGet == \E path \in DigestPaths : Get(path)
ListRemove == \E path \in DigestPaths : Remove(path)
ListAddServer == \E path \in DigestPaths, server \in URLs : AddServer(path, server)
ListRemoveServer == \E path \in DigestPaths, server \in URLs : RemoveServer(path, server)

ListNext ==
  \/ ListAdd
  \/ ListGet
  \/ ListRemove
  \/ ListAddServer
  \/ ListRemoveServer
  \/ Tick

\* ------------------------------------------------------------------------
\* package stats  (src/internal/stats/stats.go)
\* ------------------------------------------------------------------------

\* Stats.maxFailures, fixed by stats.New.
maxFailures == 2

\* The operation types the handlers record.
OpTypes == {"upload", "download", "mirror", "delete", "list"}

\* The counters of a ServerStats.
Counters ==
  { "UploadsSuccess", "UploadsFailure", "Downloads", "MirrorsSuccess", "MirrorsFailure",
    "DeletesSuccess", "DeletesFailure", "ListsSuccess", "ListsFailure" }

VARIABLES
  serverStats,   \* Stats.serverStats: server URL -> ServerStats
  statCall       \* the last call on the tracker: operation, server URL, opType

statsVars == <<serverStats, statCall>>

\* The ServerStats that GetOrCreateLocked and InitializeServers create.
NewServerStats ==
  [c \in Counters |-> 0] @@ [ConsecutiveFailures |-> 0, IsHealthy |-> TRUE]

\* Stats.GetOrCreateLocked: the map with an entry for the server.
GetOrCreateLocked(ss, serverURL) ==
  IF serverURL \in DOMAIN ss THEN ss
  ELSE [u \in DOMAIN ss \cup {serverURL} |-> IF u = serverURL THEN NewServerStats ELSE ss[u]]

\* The switch of RecordSuccess: the counter of an opType, "none" if it has none.
SuccessCounter(opType) ==
  CASE opType = "upload" -> "UploadsSuccess"
    [] opType = "download" -> "Downloads"
    [] opType = "mirror" -> "MirrorsSuccess"
    [] opType = "delete" -> "DeletesSuccess"
    [] opType = "list" -> "ListsSuccess"
    [] OTHER -> "none"

\* The switch of RecordFailure.
FailureCounter(opType) ==
  CASE opType = "upload" -> "UploadsFailure"
    [] opType = "mirror" -> "MirrorsFailure"
    [] opType = "delete" -> "DeletesFailure"
    [] opType = "list" -> "ListsFailure"
    [] OTHER -> "none"

Increment(stats, counter) ==
  IF counter = "none" THEN stats ELSE [stats EXCEPT ![counter] = @ + 1]

\* The sum of a server's counters, and of all servers' counters.
RECURSIVE SumOver(_, _)
SumOver(f, S) ==
  IF S = {} THEN 0
  ELSE LET x == CHOOSE y \in S : TRUE IN f[x] + SumOver(f, S \ {x})

TotalRecorded(ss) ==
  SumOver([u \in DOMAIN ss |-> SumOver(ss[u], Counters)], DOMAIN ss)

\* RecordSuccess without the reset of the failure streak.
RecordSuccessNoReset(serverURL, opType) ==
  LET ss == GetOrCreateLocked(serverStats, serverURL)
  IN /\ TotalRecorded(serverStats) < MaxRecords
     /\ serverStats' = [ss EXCEPT ![serverURL] = Increment(ss[serverURL], SuccessCounter(opType))]
     /\ statCall' = [op |-> "RecordSuccess", url |-> serverURL, opType |-> opType]

\* Stats.RecordSuccess
RecordSuccess(serverURL, opType) ==
  LET ss == GetOrCreateLocked(serverStats, serverURL)
      stats == [ss[serverURL] EXCEPT !.ConsecutiveFailures = 0, !.IsHealthy = TRUE]
  IN /\ TotalRecorded(serverStats) < MaxRecords
     /\ serverStats' = [ss EXCEPT ![serverURL] = Increment(stats, SuccessCounter(opType))]
     /\ statCall' = [op |-> "RecordSuccess", url |-> serverURL, opType |-> opType]

\* RecordFailure that marks unhealthy only above the threshold.
RecordFailureAbove(serverURL, opType) ==
  LET ss == GetOrCreateLocked(serverStats, serverURL)
      failures == ss[serverURL].ConsecutiveFailures + 1
      stats == [ss[serverURL] EXCEPT
                  !.ConsecutiveFailures = failures,
                  !.IsHealthy = IF failures > maxFailures THEN FALSE ELSE @]
  IN /\ TotalRecorded(serverStats) < MaxRecords
     /\ ss[serverURL].ConsecutiveFailures < MaxStreak
     /\ serverStats' = [ss EXCEPT ![serverURL] = Increment(stats, FailureCounter(opType))]
     /\ statCall' = [op |-> "RecordFailure", url |-> serverURL, opType |-> opType]

\* Stats.RecordFailure
RecordFailure(serverURL, opType) ==
  LET ss == GetOrCreateLocked(serverStats, serverURL)
      failures == ss[serverURL].ConsecutiveFailures + 1
      stats == [ss[serverURL] EXCEPT
                  !.ConsecutiveFailures = failures,
                  !.IsHealthy = IF failures >= maxFailures THEN FALSE ELSE @]
  IN /\ TotalRecorded(serverStats) < MaxRecords
     /\ ss[serverURL].ConsecutiveFailures < MaxStreak
     /\ serverStats' = [ss EXCEPT ![serverURL] = Increment(stats, FailureCounter(opType))]
     /\ statCall' = [op |-> "RecordFailure", url |-> serverURL, opType |-> opType]

\* Stats.InitializeServers: entries for the servers that have none.
InitializeServers(serverURLs) ==
  /\ serverStats' = [u \in DOMAIN serverStats \cup serverURLs |->
                       IF u \in DOMAIN serverStats THEN serverStats[u] ELSE NewServerStats]
  /\ statCall' = [op |-> "InitializeServers", url |-> "", opType |-> ""]

\* stats.New: an empty map.
StatsInit ==
  /\ serverStats = << >>
  /\ statCall = [op |-> "New", url |-> "", opType |-> ""]

StatsRecordSuccess == \E u \in URLs, t \in OpTypes : RecordSuccess(u, t)
StatsRecordFailure == \E u \in URLs, t \in OpTypes : RecordFailure(u, t)
StatsInitializeServers == \E S \in SUBSET URLs : InitializeServers(S)

StatsNext ==
  \/ StatsRecordSuccess
  \/ StatsRecordFailure
  \/ StatsInitializeServers

\* ------------------------------------------------------------------------
\* package upstream  (src/unnamed/part_003): the fan-out operations
\* ------------------------------------------------------------------------

\* Manager.serverURLs; clients, URLs and capabilities share the index.
serverURLs == <<"P1", "P2", "P3">>

Clients == 1..Len(serverURLs)

\* Statuses an upstream answers with that Client.Upload and Client.Mirror turn
\* into an HTTPError: anything but 200, 201 and 202.
ErrorStatuses == {204, 502}

\* What Client.Upload or Client.Mirror returns to a task: a response body and
\* no error, an HTTPError with the upstream's status, or another error (the
\* request failed, the context ended), for which the task keeps status 0.
Outcomes ==
  { [ok |-> TRUE, status |-> 0] } \cup { [ok |-> FALSE, status |-> c] : c \in ErrorStatuses \cup {0} }

\* The configurations of the mirror capability the model runs.
MirrorConfigs ==
  { [i \in Clients |-> FALSE], [i \in Clients |-> i < Len(serverURLs)] }

\* The client bodies of the streaming upload: the first n of the chunks 1, 2, ...
Bodies == { [i \in 1..n |-> i] : n \in 0..MaxBody }

VARIABLES
  mgr,         \* the Manager: minUploadServers and the servers' SupportsMirror
  fan,         \* the fan-out call in progress: its kind and where it stands
  tasks,       \* per client: the state of its goroutine and what its request returned
  resultChan,  \* the UploadResults sent to resultChan, in arrival order
  ret,         \* what the call returned: the successful servers and the error
  body,        \* streaming: the chunks of the client body
  producer,    \* streaming: the copying goroutine: pc, chunks read, writer at work
  digest,      \* streaming: the state of the caller's hash behind the TeeReader
  writers      \* streaming: per pipe, the errorTolerantWriter and the pipe writer

fanVars == <<mgr, fan, tasks, resultChan, ret, body, producer, digest, writers>>

\* The hash the caller computes while the body is read: a stand-in for SHA-256
\* that folds the chunks in order into a 16-bit state.
HashInit == 7

HashWrite(h, chunk) == (h * 31 + chunk) % 65521

RECURSIVE HashSum(_)
HashSum(data) ==
  IF Len(data) = 0 THEN HashInit
  ELSE HashWrite(HashSum(SubSeq(data, 1, Len(data) - 1)), data[Len(data)])

NoError == [kind |-> "nil", StatusCode |-> 0, msg |-> ""]

\* upstream.New
ManagerNew(minUploadServers, supportsMirror) ==
  /\ ~mgr.ready
  /\ mgr' = [ready |-> TRUE, minUploadServers |-> minUploadServers,
             SupportsMirror |-> supportsMirror]
  /\ UNCHANGED <<fan, tasks, resultChan, ret, body, producer, digest, writers>>

\* The result a task sends to resultChan.
UploadResult(idx, outcome) ==
  [ServerURL |-> serverURLs[idx], Success |-> outcome.ok, StatusCode |-> outcome.status]

\* The loop over resultChan: the successful servers in arrival order.
successfulServers(results) ==
  LET succeeded == SelectSeq(results, LAMBDA r : r.Success)
  IN [i \in 1..Len(succeeded) |-> succeeded[i].ServerURL]

\* The loop over resultChan: the status codes of the failures that have one.
allStatusCodes(results) ==
  LET failed == SelectSeq(results, LAMBDA r : ~r.Success /\ r.StatusCode > 0)
  IN [i \in 1..Len(failed) |-> failed[i].StatusCode]

\* The first status code to arrive, in place of the lowest.
firstStatusCode(codes) == codes[1]

\* The loop that finds the lowest status code, started at codes[0].
RECURSIVE minStatusCode(_)
minStatusCode(codes) ==
  IF Len(codes) = 1 THEN codes[1]
  ELSE LET rest == minStatusCode(SubSeq(codes, 1, Len(codes) - 1))
           code == codes[Len(codes)]
       IN IF code < rest THEN code ELSE rest

\* A verdict that asks for no more successes than there are results.
VerdictAmongResults(results, minUploadServers) ==
  LET servers == successfulServers(results)
      codes == allStatusCodes(results)
      need == IF Len(results) < minUploadServers THEN Len(results) ELSE minUploadServers
  IN IF Len(servers) < need
     THEN IF Len(codes) > 0
          THEN [servers |-> servers,
                err |-> [kind |-> "UploadError", StatusCode |-> minStatusCode(codes),
                        msg |-> "only some servers succeeded"]]
          ELSE [servers |-> servers,
                err |-> [kind |-> "error", StatusCode |-> 0,
                         msg |-> "only some servers succeeded"]]
     ELSE [servers |-> servers, err |-> NoError]

\* The verdict of UploadParallel, UploadParallelStreaming and MirrorParallel
\* after wg.Wait: the same statements in the three functions.
Verdict(results, minUploadServers) ==
  LET servers == successfulServers(results)
      codes == allStatusCodes(results)
  IN IF Len(servers) < minUploadServers
     THEN IF Len(codes) > 0
          THEN [servers |-> servers,
                err |-> [kind |-> "UploadError", StatusCode |-> minStatusCode(codes),
                        msg |-> "only some servers succeeded"]]
          ELSE [servers |-> servers,
                err |-> [kind |-> "error", StatusCode |-> 0,
                         msg |-> "only some servers succeeded"]]
     ELSE [servers |-> servers, err |-> NoError]

\* HandleUpload and HandleMirror: the status sent to the client for an error.
ClientStatus(err) ==
  IF err.kind = "nil" THEN 200
  ELSE IF err.kind = "UploadError" THEN err.StatusCode
  ELSE 500

Idle == [state |-> "idle", outcome |-> [ok |-> FALSE, status |-> 0]]

Running == [state |-> "running", outcome |-> [ok |-> FALSE, status |-> 0]]

\* The clients a call of the kind launches a goroutine for.
Dispatched(kind) ==
  IF kind = "mirror" THEN { i \in Clients : mgr.SupportsMirror[i] } ELSE Clients

\* make(chan UploadResult, n): room for one result of every goroutine launched.
resultChanCap(kind) == Cardinality(Dispatched(kind))

\* Enough servers have succeeded so far, whatever the others are doing.
QuorumReached == Len(successfulServers(resultChan)) >= mgr.minUploadServers

\* wg.Wait returns: every goroutine launched has run its deferred wg.Done.
WaitOver == \A i \in Dispatched(fan.kind) : tasks[i].state = "done"

\* UploadParallel up to wg.Wait: the body is read, one goroutine per client.
UploadParallel ==
  /\ mgr.ready /\ fan.pc = "idle"
  /\ fan' = [kind |-> "upload", pc |-> "wait"]
  /\ tasks' = [i \in Clients |-> Running]
  /\ UNCHANGED <<mgr, resultChan, ret, body, producer, digest, writers>>

\* MirrorParallel up to wg.Wait: without a capable server it returns at once,
\* otherwise one goroutine per capable server.
MirrorParallel ==
  /\ mgr.ready /\ fan.pc = "idle"
  /\ IF Dispatched("mirror") = {}
     THEN /\ fan' = [kind |-> "mirror", pc |-> "returned"]
          /\ ret' = [servers |-> << >>,
                     err |-> [kind |-> "error", StatusCode |-> 0,
                              msg |-> "no upstream servers support mirror endpoint"],
                     digest |-> HashInit]
          /\ UNCHANGED tasks
     ELSE /\ fan' = [kind |-> "mirror", pc |-> "wait"]
          /\ tasks' = [i \in Clients |-> IF mgr.SupportsMirror[i] THEN Running ELSE Idle]
          /\ UNCHANGED ret
  /\ UNCHANGED <<mgr, resultChan, body, producer, digest, writers>>

\* UploadParallelStreaming up to wg.Wait: a pipe and a goroutine per client,
\* and the goroutine that copies the body into the pipes.
UploadParallelStreaming(data) ==
  /\ mgr.ready /\ fan.pc = "idle"
  /\ fan' = [kind |-> "streaming", pc |-> "wait"]
  /\ tasks' = [i \in Clients |-> Running]
  /\ body' = data
  /\ producer' = [pc |-> "read", read |-> 0, writer |-> 1]
  /\ UNCHANGED <<mgr, resultChan, ret, digest, writers>>

\* A goroutine of the fan-out ends: its request returned, the result goes to
\* resultChan (the send waits while the channel is full), and (streaming) the deferred pipeReader.Close runs. The upstream
\* may answer, or the request may fail, before the body has been read.
TaskDone(idx, outcome) ==
  /\ fan.pc = "wait"
  /\ tasks[idx].state = "running"
  /\ Len(resultChan) < resultChanCap(fan.kind)
  /\ tasks' = [tasks EXCEPT ![idx] = [state |-> "done", outcome |-> outcome]]
  /\ resultChan' = Append(resultChan, UploadResult(idx, outcome))
  /\ UNCHANGED <<mgr, fan, ret, body, producer, digest, writers>>

\* io.Copy reads the next chunk through the TeeReader, which writes it to the
\* caller's hash; at the end of the body the copy is over.
ProducerRead ==
  /\ fan.kind = "streaming" /\ producer.pc = "read"
  /\ IF producer.read < Len(body)
     THEN /\ producer' = [pc |-> "write", read |-> producer.read + 1, writer |-> 1]
          /\ digest' = HashWrite(digest, body[producer.read + 1])
     ELSE /\ producer' = [producer EXCEPT !.pc = "close"]
          /\ UNCHANGED digest
  /\ UNCHANGED <<mgr, fan, tasks, resultChan, ret, body, writers>>

\* A MultiWriter that writes to its first writer only.
NextWriterFirstOnly == [producer EXCEPT !.pc = "read", !.writer = 1]

\* The writer MultiWriter turns to after the one at work.
NextWriter ==
  IF producer.writer < Len(serverURLs)
  THEN [producer EXCEPT !.writer = @ + 1]
  ELSE [producer EXCEPT !.pc = "read", !.writer = 1]

\* errorTolerantWriter.Write that hands the failure of the pipe to its caller.
WritePropagating(ew, readerClosed, chunk) ==
  IF ew.err \/ ew.closed THEN [ew |-> ew, n |-> 1, err |-> FALSE]
  ELSE IF readerClosed
  THEN [ew |-> [ew EXCEPT !.err = TRUE, !.closed = TRUE, !.pipe = "error"], n |-> 0, err |-> TRUE]
  ELSE [ew |-> [ew EXCEPT !.got = @ + 1, !.data = Append(@, chunk)], n |-> 1, err |-> FALSE]

\* errorTolerantWriter.Write of one chunk: the writer afterwards, the number
\* of chunks it reports as written and whether it returns an error.
Write(ew, readerClosed, chunk) ==
  IF ew.err \/ ew.closed THEN [ew |-> ew, n |-> 1, err |-> FALSE]
  ELSE IF readerClosed
  THEN [ew |-> [ew EXCEPT !.err = TRUE, !.closed = TRUE, !.pipe = "error"], n |-> 1, err |-> FALSE]
  ELSE [ew |-> [ew EXCEPT !.got = @ + 1, !.data = Append(@, chunk)], n |-> 1, err |-> FALSE]

\* The step of the copy on the writer at work: MultiWriter calls Write and
\* gives up on an error or a short write, which ends io.Copy. A writer that
\* has failed or is closed swallows the chunk. Otherwise PipeWriter.Write hands
\* the chunk to the reading request, or fails with ErrClosedPipe when the
\* reader is closed; the failure is kept, the pipe closed with it, and the
\* chunk reported as written.
ProducerWrite ==
  /\ fan.kind = "streaming" /\ producer.pc = "write"
  /\ LET idx == producer.writer
         written == Write(writers[idx], tasks[idx].state = "done", body[producer.read])
     IN /\ writers' = [writers EXCEPT ![idx] = written.ew]
        /\ producer' = IF written.err \/ written.n # 1
                       THEN [producer EXCEPT !.pc = "close"]
                       ELSE NextWriter
  /\ UNCHANGED <<mgr, fan, tasks, resultChan, ret, body, digest>>

\* The end of the copy without the loop that closes the writers.
ProducerLeaveOpen ==
  /\ fan.kind = "streaming" /\ producer.pc = "close"
  /\ producer' = [producer EXCEPT !.pc = "done"]
  /\ UNCHANGED <<mgr, fan, tasks, resultChan, ret, body, digest, writers>>

\* After io.Copy: errorTolerantWriter.Close on every writer without error.
ProducerClose ==
  /\ fan.kind = "streaming" /\ producer.pc = "close"
  /\ writers' = [i \in Clients |->
                   IF ~writers[i].err /\ ~writers[i].closed
                   THEN [writers[i] EXCEPT !.closed = TRUE, !.pipe = "closed"]
                   ELSE writers[i]]
  /\ producer' = [producer EXCEPT !.pc = "done"]
  /\ UNCHANGED <<mgr, fan, tasks, resultChan, ret, body, digest>>

VARIABLES
  stream   \* streaming: whether the deadline of uploadCtx has passed, whether
           \* io.Copy ended with an error of the body, and per client the
           \* status of the response whose headers have arrived (0: none yet)

\* Statuses an upstream answers an upload with.
ResponseStatuses == {200} \cup ErrorStatuses

\* io.Copy fails on reading the body: the chunks read so far are all the
\* pipes get, the copy is over and the error goes to streamErr.
ProducerReadError ==
  /\ fan.kind = "streaming" /\ producer.pc = "read"
  /\ producer.read < Len(body)
  /\ producer' = [producer EXCEPT !.pc = "close"]
  /\ stream' = [stream EXCEPT !.copyErr = TRUE]
  /\ UNCHANGED <<mgr, fan, tasks, resultChan, ret, body, digest, writers>>

\* The deadline of uploadCtx passes while the call waits for its goroutines.
Deadline ==
  /\ fan.kind = "streaming" /\ fan.pc = "wait"
  /\ ~stream.cancelled
  /\ stream' = [stream EXCEPT !.cancelled = TRUE]
  /\ UNCHANGED fanVars

\* httpClient.Do returns the response of a server: Client.Upload goes on to
\* read the body of the response.
ResponseReceived(idx, status) ==
  /\ fan.kind = "streaming" /\ fan.pc = "wait"
  /\ tasks[idx].state = "running"
  /\ ~stream.cancelled /\ stream.responded[idx] = 0
  /\ stream' = [stream EXCEPT !.responded[idx] = status]
  /\ UNCHANGED fanVars

\* What Client.Upload can return: the error of Do without a status while no
\* response has arrived (the only outcome left once the context is done), and
\* after the response what its status says, whether or not reading its body
\* succeeded.
UploadOutcomes(idx) ==
  IF stream.responded[idx] = 0
  THEN { [ok |-> FALSE, status |-> 0] }
  ELSE IF stream.responded[idx] = 200 THEN { [ok |-> TRUE, status |-> 0] }
  ELSE { [ok |-> FALSE, status |-> stream.responded[idx]] }

\* The select on streamErr that fails the call on an error of the copy.
failOnStreamErr(streamErr, verdict) ==
  IF streamErr
  THEN [verdict EXCEPT !.err = [kind |-> "error", StatusCode |-> 0,
                                msg |-> "failed to stream body to pipes"]]
  ELSE verdict

\* The select on streamErr after wg.Wait: an error is logged, the results
\* are processed all the same.
selectStreamErr(streamErr, verdict) == verdict

StreamInit ==
  stream = [cancelled |-> FALSE, copyErr |-> FALSE, responded |-> [i \in Clients |-> 0]]

\* wg.Wait is over: the non-blocking select on streamErr, the loop over
\* resultChan and the return. The caller reads its hash when the call returns.
Return ==
  /\ fan.pc = "wait"
  /\ WaitOver
  /\ fan' = [fan EXCEPT !.pc = "returned"]
  /\ ret' = selectStreamErr(producer.pc = "done" /\ stream.copyErr,
                            Verdict(resultChan, mgr.minUploadServers)) @@ [digest |-> digest]
  /\ UNCHANGED <<mgr, tasks, resultChan, body, producer, digest, writers>>

FanInit ==
  /\ mgr = [ready |-> FALSE, minUploadServers |-> 0,
            SupportsMirror |-> [i \in Clients |-> FALSE]]
  /\ fan = [kind |-> "none", pc |-> "idle"]
  /\ tasks = [i \in Clients |-> Idle]
  /\ resultChan = << >>
  /\ ret = [servers |-> << >>, err |-> NoError, digest |-> HashInit]
  /\ body = << >>
  /\ producer = [pc |-> "idle", read |-> 0, writer |-> 1]
  /\ digest = HashInit
  /\ writers = [i \in Clients |-> [err |-> FALSE, closed |-> FALSE, pipe |-> "open", got |-> 0,
                                   data |-> << >>]]

New == \E n \in Clients, caps \in MirrorConfigs : ManagerNew(n, caps)
StartStreaming == \E data \in Bodies : UploadParallelStreaming(data)
PeerDone == \E i \in Clients, outcome \in Outcomes : TaskDone(i, outcome)

FanNext ==
  \/ New
  \/ UploadParallel
  \/ MirrorParallel
  \/ StartStreaming
  \/ PeerDone
  \/ ProducerRead
  \/ ProducerWrite
  \/ ProducerClose
  \/ Return

\* The streaming upload alone: responses, the deadline and a failing body.
StreamNext ==
  \/ ManagerNew(2, [i \in Clients |-> FALSE]) /\ UNCHANGED stream
  \/ \E data \in Bodies : UploadParallelStreaming(data) /\ UNCHANGED stream
  \/ \E i \in Clients, status \in {200, 502} : ResponseReceived(i, status)
  \/ \E i \in Clients : \E outcome \in UploadOutcomes(i) :
       TaskDone(i, outcome) /\ UNCHANGED stream
  \/ Deadline
  \/ ProducerRead /\ UNCHANGED stream
  \/ ProducerReadError
  \/ ProducerWrite /\ UNCHANGED stream
  \/ ProducerClose /\ UNCHANGED stream
  \/ Return /\ UNCHANGED stream

\* The same with servers that answer 200 or not at all.
StreamLiveNext ==
  \/ ManagerNew(2, [i \in Clients |-> FALSE]) /\ UNCHANGED stream
  \/ \E data \in Bodies : UploadParallelStreaming(data) /\ UNCHANGED stream
  \/ \E i \in Clients, status \in {200} : ResponseReceived(i, status)
  \/ \E i \in Clients : \E outcome \in UploadOutcomes(i) :
       TaskDone(i, outcome) /\ UNCHANGED stream
  \/ Deadline
  \/ ProducerRead /\ UNCHANGED stream
  \/ ProducerReadError
  \/ ProducerWrite /\ UNCHANGED stream
  \/ ProducerClose /\ UNCHANGED stream
  \/ Return /\ UNCHANGED stream

\* ------------------------------------------------------------------------
\* package upstream  (src/unnamed/part_003): the selection of a server
\* ------------------------------------------------------------------------

\* Manager.serverPriorities, indexed as serverURLs: lower is better.
serverPriorities == <<2, 1, 1>>

\* The largest int, where the scan for the best priority starts.
MaxInt == 2147483647

\* The strategy names; "unknown" stands for any name the switch has no case for.
Strategies == {"round_robin", "random", "priority", "health_based", "local", "unknown"}

\* The elements of a list at the indices of S, in the order of the list.
RECURSIVE Sublist(_, _)
Sublist(list, S) ==
  IF Len(list) = 0 THEN << >>
  ELSE Sublist(SubSeq(list, 1, Len(list) - 1), S)
         \o (IF Len(list) \in S THEN <<list[Len(list)]>> ELSE << >>)

\* The lists of available servers a selection is called with: some of the
\* configured servers, in the order of the configuration or in the reverse
\* order, and the empty list.
Candidates ==
  { Sublist(serverURLs, S) : S \in SUBSET Clients }
    \cup { Sublist([i \in Clients |-> serverURLs[Len(serverURLs) + 1 - i]], S) : S \in SUBSET Clients }

VARIABLES
  roundRobinIndex,   \* Manager.roundRobinIndex
  redirectStrategy,  \* Manager.redirectStrategy
  getTotalFailures,  \* Manager.getTotalFailures: "nil" or "attached"
  picked             \* the last selection: its call, its result and the index around it

selVars == <<roundRobinIndex, redirectStrategy, getTotalFailures, picked>>

\* The outcome of a selection: the server, or an error, and the index it leaves.
Pick(server, index) == [err |-> FALSE, server |-> server, index |-> index]

NoPick(index) == [err |-> TRUE, server |-> "", index |-> index]

\* selectRoundRobin and selectRoundRobinWithResponse, under roundRobinMutex.
selectRoundRobin(availableServers, index) ==
  Pick(availableServers[(index % Len(availableServers)) + 1], index + 1)

\* selectRandom and selectRandomWithResponse: any of the servers.
selectRandom(availableServers, index) ==
  { Pick(availableServers[i], index) : i \in 1..Len(availableServers) }

\* The priority of a URL: the loop over m.serverURLs up to the first match.
HasPriority(url) == \E j \in Clients : serverURLs[j] = url

PriorityOf(url) ==
  serverPriorities[CHOOSE j \in Clients :
                     serverURLs[j] = url /\ \A k \in 1..(j - 1) : serverURLs[k] # url]

\* The scan of selectPriority over availableServers[1..n]: the best server so
\* far ("" for none) and its priority.
RECURSIVE priorityScan(_, _)
priorityScan(availableServers, n) ==
  IF n = 0 THEN [bestServer |-> "", bestPriority |-> MaxInt]
  ELSE LET best == priorityScan(availableServers, n - 1)
           url == availableServers[n]
       IN IF HasPriority(url) /\ PriorityOf(url) < best.bestPriority
          THEN [bestServer |-> url, bestPriority |-> PriorityOf(url)]
          ELSE best

\* The scan that keeps the last server of lowest priority instead of the first.
selectPriorityLast(availableServers, index) ==
  LET lowest == priorityScan(availableServers, Len(availableServers)).bestPriority
      last == CHOOSE i \in 1..Len(availableServers) :
                /\ PriorityOf(availableServers[i]) = lowest
                /\ \A k \in (i + 1)..Len(availableServers) :
                     PriorityOf(availableServers[k]) # lowest
  IN Pick(availableServers[last], index)

\* selectPriority and selectPriorityWithResponse.
selectPriority(availableServers, index) ==
  LET best == priorityScan(availableServers, Len(availableServers))
  IN IF best.bestServer = "" THEN Pick(availableServers[1], index)
     ELSE Pick(best.bestServer, index)

\* The getter attached by SetFailureGetter: a server's upload, mirror, delete
\* and list failures together; 0 for a server without statistics.
TotalFailures(ss, serverURL) ==
  IF serverURL \in DOMAIN ss
  THEN ss[serverURL].UploadsFailure + ss[serverURL].MirrorsFailure
         + ss[serverURL].DeletesFailure + ss[serverURL].ListsFailure
  ELSE 0

\* The loop of selectHealthBased over availableServers[1..n]: minFailures,
\* started at -1.
RECURSIVE minFailures(_, _, _)
minFailures(ss, availableServers, n) ==
  IF n = 0 THEN -1
  ELSE LET least == minFailures(ss, availableServers, n - 1)
           totalFailures == TotalFailures(ss, availableServers[n])
       IN IF least = -1 \/ totalFailures < least THEN totalFailures ELSE least

\* serversByFailures[minFailures]: the servers of fewest failures, in input order.
bestServers(ss, availableServers) ==
  SelectSeq(availableServers,
            LAMBDA url : TotalFailures(ss, url) =
                           minFailures(ss, availableServers, Len(availableServers)))

\* Round-robin over all servers, whatever their failures.
selectHealthBasedAll(ss, getter, availableServers, index) ==
  selectRoundRobin(availableServers, index)

\* selectHealthBased and selectHealthBasedWithResponse.
selectHealthBased(ss, getter, availableServers, index) ==
  IF getter = "nil" THEN selectRoundRobin(availableServers, index)
  ELSE IF Len(bestServers(ss, availableServers)) = 0 THEN Pick(availableServers[1], index)
  ELSE selectRoundRobin(bestServers(ss, availableServers), index)

\* SelectServerURLWithStrategy: the outcomes the call can have.
SelectServerURLWithStrategy(ss, getter, availableServers, strategy, index) ==
  IF Len(availableServers) = 0 THEN { NoPick(index) }
  ELSE IF strategy = "round_robin" THEN { selectRoundRobin(availableServers, index) }
  ELSE IF strategy = "random" THEN selectRandom(availableServers, index)
  ELSE IF strategy = "priority" THEN { selectPriority(availableServers, index) }
  ELSE IF strategy = "local" THEN { selectRoundRobin(availableServers, index) }
  ELSE IF strategy = "health_based"
  THEN { selectHealthBased(ss, getter, availableServers, index) }
  ELSE { selectRoundRobin(availableServers, index) }

\* SelectServer, on the results of an upload: the switch has no case "local".
SelectServer(ss, getter, availableServers, strategy, index) ==
  IF Len(availableServers) = 0 THEN { NoPick(index) }
  ELSE IF strategy = "round_robin" THEN { selectRoundRobin(availableServers, index) }
  ELSE IF strategy = "random" THEN selectRandom(availableServers, index)
  ELSE IF strategy = "priority" THEN { selectPriority(availableServers, index) }
  ELSE IF strategy = "health_based"
  THEN { selectHealthBased(ss, getter, availableServers, index) }
  ELSE { selectRoundRobin(availableServers, index) }

\* The record of a selection.
Picked(op, availableServers, strategy, p) ==
  [op |-> op, availableServers |-> availableServers, strategy |-> strategy,
   err |-> p.err, server |-> p.server, before |-> roundRobinIndex, after |-> p.index]

\* A call of SelectServerURLWithStrategy.
SelectURL(availableServers, strategy) ==
  /\ roundRobinIndex < MaxPicks
  /\ \E p \in SelectServerURLWithStrategy(serverStats, getTotalFailures,
                                          availableServers, strategy, roundRobinIndex) :
       /\ roundRobinIndex' = p.index
       /\ picked' = Picked("SelectServerURLWithStrategy", availableServers, strategy, p)
  /\ UNCHANGED <<redirectStrategy, getTotalFailures>>

\* A call of SelectServer.
SelectUploaded(availableServers) ==
  /\ roundRobinIndex < MaxPicks
  /\ \E p \in SelectServer(serverStats, getTotalFailures,
                           availableServers, redirectStrategy, roundRobinIndex) :
       /\ roundRobinIndex' = p.index
       /\ picked' = Picked("SelectServer", availableServers, redirectStrategy, p)
  /\ UNCHANGED <<redirectStrategy, getTotalFailures>>

\* Manager.SetFailureGetter
SetFailureGetter ==
  /\ getTotalFailures = "nil"
  /\ getTotalFailures' = "attached"
  /\ UNCHANGED <<roundRobinIndex, redirectStrategy, picked>>

\* upstream.New with the strategy of the configuration.
SetStrategy(strategy) ==
  /\ redirectStrategy = ""
  /\ redirectStrategy' = strategy
  /\ UNCHANGED <<roundRobinIndex, getTotalFailures, picked>>

SelInit ==
  /\ roundRobinIndex = 0
  /\ redirectStrategy = ""
  /\ getTotalFailures = "nil"
  /\ picked = [op |-> "New", availableServers |-> << >>, strategy |-> "",
               err |-> FALSE, server |-> "", before |-> 0, after |-> 0]

SelConfigure == \E strategy \in {"local", "priority"} : SetStrategy(strategy) /\ UNCHANGED statsVars
SelAttach == SetFailureGetter /\ UNCHANGED statsVars
SelFailure == \E i \in Clients : RecordFailure(serverURLs[i], "upload") /\ UNCHANGED selVars
SelSelectURL == \E a \in Candidates, strategy \in Strategies : SelectURL(a, strategy) /\ UNCHANGED statsVars
SelSelectServer == \E a \in Candidates : SelectUploaded(a) /\ UNCHANGED statsVars

SelNext ==
  \/ SelConfigure
  \/ SelAttach
  \/ SelFailure
  \/ SelSelectURL
  \/ SelSelectServer

\* ------------------------------------------------------------------------
\* package upstream  (src/unnamed/part_003): concurrent round-robin selections
\* ------------------------------------------------------------------------

\* The goroutines (request handlers) that select concurrently.
Goroutines == {"g1", "g2"}

\* The lists the concurrent selections are called with: 3, 2 and 1 servers.
RoundRobinLists == { SubSeq(serverURLs, n, Len(serverURLs)) : n \in Clients }

VARIABLES
  roundRobinMutex,  \* Manager.roundRobinMutex: "" when free, else its holder
  goroutines,       \* per goroutine: where it stands in selectRoundRobin and its locals
  selections        \* the selections that have returned, in the order of their return

rrVars == <<roundRobinMutex, goroutines, selections>>

IdleGoroutine == [pc |-> "idle", availableServers |-> << >>, c |-> 0, server |-> "", tmp |-> 0]

\* The selections that have been called.
Started == Len(selections) + Cardinality({ g \in Goroutines : goroutines[g].pc # "idle" })

\* A goroutine calls selectRoundRobin or selectRoundRobinWithResponse.
RoundRobinCall(g, availableServers) ==
  /\ goroutines[g].pc = "idle"
  /\ Started < MaxPicks
  /\ goroutines' = [goroutines EXCEPT ![g] = [IdleGoroutine EXCEPT
                      !.pc = "lock", !.availableServers = availableServers]]
  /\ UNCHANGED <<roundRobinMutex, selections, roundRobinIndex>>

\* The goroutine goes on without the mutex.
RoundRobinNoLock(g) ==
  /\ goroutines[g].pc = "lock"
  /\ goroutines' = [goroutines EXCEPT ![g].pc = "select"]
  /\ UNCHANGED <<roundRobinMutex, selections, roundRobinIndex>>

\* m.roundRobinMutex.Lock()
RoundRobinLock(g) ==
  /\ goroutines[g].pc = "lock"
  /\ roundRobinMutex = ""
  /\ roundRobinMutex' = g
  /\ goroutines' = [goroutines EXCEPT ![g].pc = "select"]
  /\ UNCHANGED <<selections, roundRobinIndex>>

\* server := availableServers[m.roundRobinIndex % len(availableServers)]
RoundRobinSelect(g) ==
  /\ goroutines[g].pc = "select"
  /\ goroutines' = [goroutines EXCEPT
       ![g].pc = "load",
       ![g].c = roundRobinIndex,
       ![g].server = goroutines[g].availableServers[
                       (roundRobinIndex % Len(goroutines[g].availableServers)) + 1]]
  /\ UNCHANGED <<roundRobinMutex, selections, roundRobinIndex>>

\* m.roundRobinIndex++ : the load
RoundRobinLoad(g) ==
  /\ goroutines[g].pc = "load"
  /\ goroutines' = [goroutines EXCEPT ![g].pc = "store", ![g].tmp = roundRobinIndex]
  /\ UNCHANGED <<roundRobinMutex, selections, roundRobinIndex>>

\* m.roundRobinIndex++ : the store
RoundRobinStore(g) ==
  /\ goroutines[g].pc = "store"
  /\ roundRobinIndex' = goroutines[g].tmp + 1
  /\ goroutines' = [goroutines EXCEPT ![g].pc = "unlock"]
  /\ UNCHANGED <<roundRobinMutex, selections>>

\* The deferred m.roundRobinMutex.Unlock() and the return of the server.
RoundRobinUnlock(g) ==
  /\ goroutines[g].pc = "unlock"
  /\ roundRobinMutex' = IF roundRobinMutex = g THEN "" ELSE roundRobinMutex
  /\ selections' = Append(selections,
                          [availableServers |-> goroutines[g].availableServers,
                           c |-> goroutines[g].c, server |-> goroutines[g].server])
  /\ goroutines' = [goroutines EXCEPT ![g] = IdleGoroutine]
  /\ UNCHANGED roundRobinIndex

RoundRobinInit ==
  /\ roundRobinMutex = ""
  /\ goroutines = [g \in Goroutines |-> IdleGoroutine]
  /\ selections = << >>

GoCall == \E g \in Goroutines, a \in RoundRobinLists : RoundRobinCall(g, a)
GoLock == \E g \in Goroutines : RoundRobinLock(g)
GoSelect == \E g \in Goroutines : RoundRobinSelect(g)
GoLoad == \E g \in Goroutines : RoundRobinLoad(g)
GoStore == \E g \in Goroutines : RoundRobinStore(g)
GoUnlock == \E g \in Goroutines : RoundRobinUnlock(g)

RoundRobinNext ==
  \/ GoCall
  \/ GoLock
  \/ GoSelect
  \/ GoLoad
  \/ GoStore
  \/ GoUnlock

\* ------------------------------------------------------------------------
\* HEAD /upload: Manager.UploadPreflightParallel (src/unnamed/part_003) and
\* BlossomHandler.handleUploadPreflight (src/internal/handler/blossom.go)
\* ------------------------------------------------------------------------

\* The statuses an upstream answers HEAD /upload with.
PreflightStatuses == {200, 204, 413}

\* The X-Reason headers of the upstreams' answers; "" for none.
Reasons == {"", "r1", "r2"}

\* What Client.HeadUpload returns to a task: an error (no response), or a
\* response with its status and its X-Reason header.
PreflightOutcomes ==
  { [failed |-> TRUE, status |-> 0, XReason |-> ""] }
    \cup { [failed |-> FALSE, status |-> c, XReason |-> r] : c \in PreflightStatuses, r \in Reasons }

\* The configurations of the HEAD /upload capability the model runs.
UploadHeadConfigs ==
  { [i \in Clients |-> FALSE], [i \in Clients |-> i > 1], [i \in Clients |-> TRUE] }

VARIABLES
  supportsUploadHead,  \* the servers' SupportsUploadHead
  preflight,           \* where the HEAD /upload request stands
  preflightTasks,      \* per client: the state of its goroutine and what HeadUpload returned
  preflightChan,       \* the UploadPreflightResults sent to resultChan, in arrival order
  preflightRet,        \* what UploadPreflightParallel returned
  resp                 \* the response written to the client

preflightVars ==
  <<supportsUploadHead, preflight, preflightTasks, preflightChan, preflightRet, resp>>

NoOutcome == [failed |-> FALSE, status |-> 0, XReason |-> ""]

NoResponse == [status |-> 0, XReason |-> "", Location |-> << >>]

\* The result a task sends to resultChan.
UploadPreflightResult(idx, outcome) ==
  [ServerURL |-> serverURLs[idx],
   Accepted |-> ~outcome.failed /\ outcome.status = 200,
   StatusCode |-> outcome.status,
   XReason |-> outcome.XReason]

\* uploadHeadCapableIndices
uploadHeadCapable == { i \in Clients : supportsUploadHead[i] }

\* upstream.New with the capabilities of the configuration.
PreflightNew(minUploadServers, caps) ==
  /\ ManagerNew(minUploadServers, [i \in Clients |-> FALSE])
  /\ supportsUploadHead' = caps
  /\ UNCHANGED <<preflight, preflightTasks, preflightChan, preflightRet, resp>>

\* handleUploadPreflight calls UploadPreflightParallel, which returns at once
\* without a capable server and otherwise starts one goroutine per capable server.
HandlePreflight ==
  /\ mgr.ready /\ preflight = "idle"
  /\ IF uploadHeadCapable = {}
     THEN /\ preflight' = "returned"
          /\ preflightRet' = [results |-> << >>,
                              err |-> [kind |-> "error", StatusCode |-> 0,
                                       msg |-> "no upstream servers support HEAD /upload endpoint"]]
          /\ UNCHANGED preflightTasks
     ELSE /\ preflight' = "wait"
          /\ preflightTasks' = [i \in Clients |->
                                  IF supportsUploadHead[i]
                                  THEN [state |-> "running", outcome |-> NoOutcome]
                                  ELSE preflightTasks[i]]
          /\ UNCHANGED preflightRet
  /\ UNCHANGED <<supportsUploadHead, preflightChan, resp>>

\* A goroutine of the preflight ends: HeadUpload returned and the result goes
\* to resultChan.
PreflightTaskDone(idx, outcome) ==
  /\ preflight = "wait"
  /\ preflightTasks[idx].state = "running"
  /\ preflightTasks' = [preflightTasks EXCEPT ![idx] = [state |-> "done", outcome |-> outcome]]
  /\ preflightChan' = Append(preflightChan, UploadPreflightResult(idx, outcome))
  /\ UNCHANGED <<supportsUploadHead, preflight, preflightRet, resp>>

\* The status of the first rejection in place of the lowest.
firstRejectedStatusCode(results, n) ==
  LET rejected == SelectSeq(results, LAMBDA r : ~r.Accepted /\ r.StatusCode > 0)
  IN IF Len(rejected) = 0 THEN 0 ELSE rejected[1].StatusCode

\* The loop over the results for the lowest status of a rejection, started at 0.
RECURSIVE lowestStatusCode(_, _)
lowestStatusCode(results, n) ==
  IF n = 0 THEN 0
  ELSE LET lowest == lowestStatusCode(results, n - 1)
           result == results[n]
       IN IF ~result.Accepted /\ result.StatusCode > 0
             /\ (lowest = 0 \/ result.StatusCode < lowest)
          THEN result.StatusCode
          ELSE lowest

\* UploadPreflightParallel after wg.Wait.
PreflightVerdict(results, minUploadServers) ==
  LET acceptedCount == Len(SelectSeq(results, LAMBDA r : r.Accepted))
      lowest == lowestStatusCode(results, Len(results))
  IN IF acceptedCount < minUploadServers
     THEN [results |-> results,
           err |-> [kind |-> "UploadError",
                    StatusCode |-> IF lowest = 0 THEN 400 ELSE lowest,
                    msg |-> "only some servers would accept the upload"]]
     ELSE [results |-> results, err |-> NoError]

\* wg.Wait is over: UploadPreflightParallel collects the results and returns.
PreflightReturn ==
  /\ preflight = "wait"
  /\ \A i \in uploadHeadCapable : preflightTasks[i].state = "done"
  /\ preflight' = "returned"
  /\ preflightRet' = PreflightVerdict(preflightChan, mgr.minUploadServers)
  /\ UNCHANGED <<supportsUploadHead, preflightTasks, preflightChan, resp>>

\* The reasons of the rejections, in the order of the results.
reasons(results) ==
  LET rejected == SelectSeq(results, LAMBDA r : ~r.Accepted /\ r.XReason # "")
  IN [i \in 1..Len(rejected) |-> rejected[i].XReason]

\* The X-Reason of the proxy's own error message in place of the upstream's.
PreflightResponseOwnReason(results, err) ==
  IF err.kind = "UploadError"
  THEN [NoResponse EXCEPT !.status = err.StatusCode, !.XReason = err.msg]
  ELSE IF err.kind = "error" THEN [NoResponse EXCEPT !.status = 500]
  ELSE [NoResponse EXCEPT !.status = 200]

\* handleUploadPreflight after the call: the status and the X-Reason header.
PreflightResponse(results, err) ==
  IF err.kind = "UploadError"
  THEN [NoResponse EXCEPT
          !.status = err.StatusCode,
          !.XReason = IF Len(reasons(results)) > 0 THEN reasons(results)[1] ELSE err.msg]
  ELSE IF err.kind = "error" THEN [NoResponse EXCEPT !.status = 500]
  ELSE [NoResponse EXCEPT !.status = 200]

\* handleUploadPreflight writes the response.
PreflightRespond ==
  /\ preflight = "returned"
  /\ preflight' = "responded"
  /\ resp' = PreflightResponse(preflightRet.results, preflightRet.err)
  /\ UNCHANGED <<supportsUploadHead, preflightTasks, preflightChan, preflightRet>>

PreflightInit ==
  /\ supportsUploadHead = [i \in Clients |-> FALSE]
  /\ preflight = "idle"
  /\ preflightTasks = [i \in Clients |-> [state |-> "idle", outcome |-> NoOutcome]]
  /\ preflightChan = << >>
  /\ preflightRet = [results |-> << >>, err |-> NoError]
  /\ resp = NoResponse

PreNew == \E n \in Clients, caps \in UploadHeadConfigs : PreflightNew(n, caps)
PreTaskDone == \E i \in Clients, outcome \in PreflightOutcomes : PreflightTaskDone(i, outcome)

PreflightNext ==
  \/ PreNew
  \/ HandlePreflight /\ UNCHANGED fanVars
  \/ PreTaskDone /\ UNCHANGED fanVars
  \/ PreflightReturn /\ UNCHANGED fanVars
  \/ PreflightRespond /\ UNCHANGED fanVars

\* ------------------------------------------------------------------------
\* package handler (src/internal/handler/blossom.go): PUT /upload,
\* GET /<sha256> and DELETE /<sha256>, one request at a time
\* ------------------------------------------------------------------------

\* The redirect strategies of the configurations the handlers run under.
HandlerStrategies == {"round_robin", "priority"}

\* The answers of an upstream to the HEAD request of CheckHashOnServers.
HeadStatuses == {200, 404}

\* The orders in which the servers' results can arrive.
RECURSIVE Orderings(_)
Orderings(S) ==
  IF S = {} THEN { << >> }
  ELSE UNION { { <<x>> \o p : p \in Orderings(S \ {x}) } : x \in S }

VARIABLES
  req,       \* the request being handled: operation, hash, position, locals
  requests   \* the number of requests received

handlerVars == <<req, requests>>

NoRequest ==
  [op |-> "none", pc |-> "idle", hash |-> EmptyPath, servers |-> << >>,
   answers |-> [i \in Clients |-> 0]]

\* A record of success that counts the operation and leaves the consecutive
\* failures and the health flag as they are.
RecordedKeeping(ss, serverURL, opType, ok) ==
  LET created == GetOrCreateLocked(ss, serverURL)
      failures == created[serverURL].ConsecutiveFailures + 1
  IN IF ok
     THEN [created EXCEPT ![serverURL] = Increment(@, SuccessCounter(opType))]
     ELSE [created EXCEPT ![serverURL] =
             Increment([@ EXCEPT !.ConsecutiveFailures = failures,
                                 !.IsHealthy = IF failures >= maxFailures THEN FALSE ELSE @],
                       FailureCounter(opType))]

\* Stats.RecordSuccess and Stats.RecordFailure as the handlers call them, one
\* after the other: the statistics afterwards.
Recorded(ss, serverURL, opType, ok) ==
  LET created == GetOrCreateLocked(ss, serverURL)
      failures == created[serverURL].ConsecutiveFailures + 1
  IN IF ok
     THEN [created EXCEPT ![serverURL] =
             Increment([@ EXCEPT !.ConsecutiveFailures = 0, !.IsHealthy = TRUE],
                       SuccessCounter(opType))]
     ELSE [created EXCEPT ![serverURL] =
             Increment([@ EXCEPT !.ConsecutiveFailures = failures,
                                 !.IsHealthy = IF failures >= maxFailures THEN FALSE ELSE @],
                       FailureCounter(opType))]

\* The statistics after a record for each of the first n servers of the list.
RECURSIVE RecordedEach(_, _, _, _, _)
RecordedEach(ss, servers, oks, opType, n) ==
  IF n = 0 THEN ss
  ELSE Recorded(RecordedEach(ss, servers, oks, opType, n - 1), servers[n], opType, oks[n])

\* HandleUpload up to the call of UploadParallel, with the hash of the body.
HandleUpload(hash) ==
  /\ req.pc = "idle" /\ requests < MaxRequests
  /\ UploadParallel
  /\ req' = [NoRequest EXCEPT !.op = "upload", !.pc = "upstream", !.hash = hash]
  /\ requests' = requests + 1

\* The URLs of every configured server in place of the successful ones.
allServerURLs(uploaded) == serverURLs

\* "Extract server URLs for cache": the URLs of the successful servers.
successfulURLs(uploaded) == uploaded

\* HandleUpload after UploadParallel returned: the statistics of every server,
\* then the error response, or the cache entry, the selection and 200.
HandleUploadResponse ==
  /\ req.op = "upload" /\ req.pc = "upstream" /\ fan.pc = "returned"
  /\ LET succeeded == { ret.servers[k] : k \in 1..Len(ret.servers) }
         afterSuccesses == RecordedEach(serverStats, ret.servers,
                                        [k \in 1..Len(ret.servers) |-> TRUE], "upload",
                                        Len(ret.servers))
         failed == SelectSeq(serverURLs, LAMBDA url : url \notin succeeded)
     IN serverStats' = RecordedEach(afterSuccesses, failed,
                                    [k \in 1..Len(failed) |-> FALSE], "upload", Len(failed))
  /\ statCall' = [op |-> "HandleUpload", url |-> "", opType |-> "upload"]
  /\ IF ret.err.kind # "nil"
     THEN /\ resp' = [NoResponse EXCEPT !.status = ClientStatus(ret.err)]
          /\ UNCHANGED <<cacheVars, selVars>>
     ELSE /\ Add(req.hash, successfulURLs(ret.servers))
          /\ \E p \in SelectServer(serverStats', getTotalFailures, ret.servers,
                                   redirectStrategy, roundRobinIndex) :
               /\ roundRobinIndex' = p.index
               /\ picked' = Picked("SelectServer", ret.servers, redirectStrategy, p)
               /\ resp' = [NoResponse EXCEPT !.status = IF p.err THEN 500 ELSE 200]
          /\ UNCHANGED <<redirectStrategy, getTotalFailures>>
  /\ req' = [NoRequest EXCEPT !.op = req.op, !.hash = req.hash]
  /\ fan' = [kind |-> "none", pc |-> "idle"]
  /\ tasks' = [i \in Clients |-> Idle]
  /\ resultChan' = << >>
  /\ ret' = [servers |-> << >>, err |-> NoError, digest |-> HashInit]
  /\ UNCHANGED <<mgr, body, producer, digest, writers, requests>>

\* HandleDownload and HandleDelete up to the lookup in the cache.
HandleLookup(op, hash) ==
  /\ req.pc = "idle" /\ requests < MaxRequests
  /\ mgr.ready
  /\ Get(hash)
  /\ req' = [NoRequest EXCEPT !.op = op, !.hash = hash,
               !.servers = IF op = "delete" /\ ~lastCall'.ret.ok THEN serverURLs
                           ELSE lastCall'.ret.servers,
               !.pc = IF op = "delete" THEN "forward"
                      ELSE IF ~lastCall'.ret.ok \/ Len(lastCall'.ret.servers) = 0 THEN "check"
                      ELSE "select"]
  /\ requests' = requests + 1

\* Every server in arrival order in place of the servers that have the blob.
serversAnswering(arrival, answers) == [k \in 1..Len(arrival) |-> serverURLs[arrival[k]]]

\* CheckHashOnServers: a HEAD request to every client; the URLs of the servers
\* that answered 200, in the order their results arrived.
serversWithBlob(arrival, answers) ==
  LET found == SelectSeq(arrival, LAMBDA i : answers[i] = 200)
  IN [k \in 1..Len(found) |-> serverURLs[found[k]]]

\* HandleDownload on a miss: the check of the upstream servers, then 404, or
\* the cache entry for the servers found.
HandleDownloadCheck(arrival, answers) ==
  /\ req.op = "download" /\ req.pc = "check"
  /\ LET servers == serversWithBlob(arrival, answers)
     IN IF Len(servers) = 0
        THEN /\ resp' = [NoResponse EXCEPT !.status = 404]
             /\ req' = [NoRequest EXCEPT !.op = req.op, !.hash = req.hash,
                                         !.answers = answers]
             /\ UNCHANGED cacheVars
        ELSE /\ Add(req.hash, servers)
             /\ req' = [req EXCEPT !.pc = "select", !.servers = servers, !.answers = answers]
             /\ UNCHANGED resp
  /\ UNCHANGED <<requests, statsVars, selVars>>

\* HandleDownload: SelectServerURL, the statistics of the download and the
\* redirect to the selected server.
HandleDownloadRedirect ==
  /\ req.op = "download" /\ req.pc = "select"
  /\ \E p \in SelectServerURLWithStrategy(serverStats, getTotalFailures, req.servers,
                                          redirectStrategy, roundRobinIndex) :
       /\ roundRobinIndex' = p.index
       /\ picked' = Picked("SelectServerURL", req.servers, redirectStrategy, p)
       /\ IF p.err
          THEN /\ resp' = [NoResponse EXCEPT !.status = 500]
               /\ UNCHANGED statsVars
          ELSE /\ resp' = [NoResponse EXCEPT !.status = 307,
                                             !.Location = <<p.server, req.hash>>]
               /\ serverStats' = Recorded(serverStats, p.server, "download", TRUE)
               /\ statCall' = [op |-> "RecordSuccess", url |-> p.server, opType |-> "download"]
  /\ req' = [NoRequest EXCEPT !.op = req.op, !.hash = req.hash]
  /\ UNCHANGED <<redirectStrategy, getTotalFailures, requests, cacheVars>>

\* The entry is removed whatever the deletes returned.
removeAlways(deleted) == TRUE

\* successCount > 0
removeFromCache(deleted) == \E k \in DOMAIN deleted : deleted[k]

\* HandleDelete: a DELETE to each server of the list, the statistics of each,
\* then the removal from the cache and 204, or 500.
HandleDeleteForward(deleted) ==
  /\ req.op = "delete" /\ req.pc = "forward"
  /\ DOMAIN deleted = 1..Len(req.servers)
  /\ serverStats' = RecordedEach(serverStats, req.servers, deleted, "delete", Len(req.servers))
  /\ statCall' = [op |-> "HandleDelete", url |-> "", opType |-> "delete"]
  /\ IF removeFromCache(deleted)
     THEN /\ Remove(req.hash)
          /\ resp' = [NoResponse EXCEPT !.status = 204]
     ELSE /\ resp' = [NoResponse EXCEPT !.status = 500]
          /\ UNCHANGED cacheVars
  /\ req' = [NoRequest EXCEPT !.op = req.op, !.hash = req.hash]
  /\ UNCHANGED <<requests, selVars>>

HandlerInit ==
  /\ req = NoRequest
  /\ requests = 0

\* The state of the fan-out that the handlers other than HandleUpload leave alone.
otherHandlerVars == <<fanVars, supportsUploadHead, preflight, preflightTasks, preflightChan, preflightRet>>

\* New with the redirect strategy of the configuration; no server supports
\* the mirror endpoint.
HandlerNew ==
  \E n \in 1..2, strategy \in HandlerStrategies :
    /\ ManagerNew(n, [i \in Clients |-> FALSE]) /\ SetStrategy(strategy)
    /\ UNCHANGED <<cacheVars, statsVars, preflightVars, handlerVars>>

\* Time passes between two requests.
HandlerTick ==
  /\ req.pc = "idle"
  /\ Tick
  /\ UNCHANGED <<statsVars, selVars, preflightVars, handlerVars, fanVars>>

\* PUT /upload requests, one at a time: each peer's upload succeeds or fails
\* with 502.
UploadNext ==
  \/ HandlerNew
  \/ /\ HandleUpload(DigestA)
     /\ UNCHANGED <<cacheVars, statsVars, selVars, preflightVars>>
  \/ \E i \in Clients, ok \in BOOLEAN :
       /\ TaskDone(i, [ok |-> ok, status |-> IF ok THEN 0 ELSE 502])
       /\ UNCHANGED <<cacheVars, statsVars, selVars, preflightVars, handlerVars>>
  \/ /\ Return
     /\ UNCHANGED <<cacheVars, statsVars, selVars, preflightVars, handlerVars>>
  \/ /\ HandleUploadResponse
     /\ UNCHANGED <<supportsUploadHead, preflight, preflightTasks, preflightChan, preflightRet>>
  \/ HandlerTick

\* GET /<sha256> and DELETE /<sha256> requests, one at a time.
HandlerNext ==
  \/ HandlerNew
  \/ /\ HandleLookup("download", DigestA)
     /\ UNCHANGED <<statsVars, selVars, resp, otherHandlerVars>>
  \/ \E arrival \in Orderings(Clients), answers \in [Clients -> HeadStatuses] :
       /\ HandleDownloadCheck(arrival, answers)
       /\ UNCHANGED otherHandlerVars
  \/ /\ HandleDownloadRedirect
     /\ UNCHANGED otherHandlerVars
  \/ /\ HandleLookup("delete", DigestA)
     /\ UNCHANGED <<statsVars, selVars, resp, otherHandlerVars>>
  \/ \E deleted \in UNION { [1..n -> BOOLEAN] : n \in 0..Len(serverURLs) } :
       /\ HandleDeleteForward(deleted)
       /\ UNCHANGED otherHandlerVars
  \/ HandlerTick

\* HandleMirror up to the call of MirrorParallel.
HandleMirror ==
  /\ req.pc = "idle" /\ requests < MaxRequests
  /\ MirrorParallel
  /\ req' = [NoRequest EXCEPT !.op = "mirror", !.pc = "upstream"]
  /\ requests' = requests + 1

\* HandleMirror after MirrorParallel returned: a record for each successful
\* server, then the error response, or the selection and 200.
HandleMirrorResponse ==
  /\ req.op = "mirror" /\ req.pc = "upstream" /\ fan.pc = "returned"
  /\ serverStats' = RecordedEach(serverStats, ret.servers,
                                 [k \in 1..Len(ret.servers) |-> TRUE], "mirror",
                                 Len(ret.servers))
  /\ statCall' = [op |-> "HandleMirror", url |-> "", opType |-> "mirror"]
  /\ IF ret.err.kind # "nil"
     THEN /\ resp' = [NoResponse EXCEPT !.status = ClientStatus(ret.err)]
          /\ UNCHANGED selVars
     ELSE /\ \E p \in SelectServer(serverStats', getTotalFailures, ret.servers,
                                   redirectStrategy, roundRobinIndex) :
               /\ roundRobinIndex' = p.index
               /\ picked' = Picked("SelectServer", ret.servers, redirectStrategy, p)
               /\ resp' = [NoResponse EXCEPT !.status = IF p.err THEN 500 ELSE 200]
          /\ UNCHANGED <<redirectStrategy, getTotalFailures>>
  /\ req' = [NoRequest EXCEPT !.op = req.op]
  /\ fan' = [kind |-> "none", pc |-> "idle"]
  /\ tasks' = [i \in Clients |-> Idle]
  /\ resultChan' = << >>
  /\ ret' = [servers |-> << >>, err |-> NoError, digest |-> HashInit]
  /\ UNCHANGED <<mgr, body, producer, digest, writers, requests, cacheVars>>

\* PUT /upload and PUT /mirror requests, one at a time, with and without
\* servers that support the mirror endpoint.
ObservedNext ==
  \/ \E n \in 1..2, supportsMirror \in MirrorConfigs :
       /\ ManagerNew(n, supportsMirror) /\ SetStrategy("round_robin")
       /\ UNCHANGED <<cacheVars, statsVars, preflightVars, handlerVars>>
  \/ /\ HandleUpload(DigestA)
     /\ UNCHANGED <<cacheVars, statsVars, selVars, preflightVars>>
  \/ /\ HandleMirror
     /\ UNCHANGED <<cacheVars, statsVars, selVars, preflightVars>>
  \/ \E i \in Clients, ok \in BOOLEAN :
       /\ i \in Dispatched(fan.kind)
       /\ TaskDone(i, [ok |-> ok, status |-> IF ok THEN 0 ELSE 502])
       /\ UNCHANGED <<cacheVars, statsVars, selVars, preflightVars, handlerVars>>
  \/ /\ Return
     /\ UNCHANGED <<cacheVars, statsVars, selVars, preflightVars, handlerVars>>
  \/ /\ HandleUploadResponse
     /\ UNCHANGED <<supportsUploadHead, preflight, preflightTasks, preflightChan, preflightRet>>
  \/ /\ HandleMirrorResponse
     /\ UNCHANGED <<supportsUploadHead, preflight, preflightTasks, preflightChan, preflightRet>>

\* New with both capabilities of each server read from the configuration.
CapableNew(minUploadServers, supportsMirror, caps) ==
  /\ ManagerNew(minUploadServers, supportsMirror)
  /\ supportsUploadHead' = caps
  /\ UNCHANGED <<preflight, preflightTasks, preflightChan, preflightRet, resp>>

\* A mirror and a preflight on a manager whose servers have either, both or
\* none of the two capabilities.
CapableNext ==
  \/ \E n \in Clients, supportsMirror \in MirrorConfigs, caps \in UploadHeadConfigs :
       /\ CapableNew(n, supportsMirror, caps)
       /\ UNCHANGED <<cacheVars, statsVars, selVars, handlerVars>>
  \/ /\ MirrorParallel
     /\ UNCHANGED <<cacheVars, statsVars, selVars, preflightVars, handlerVars>>
  \/ \E i \in Clients, outcome \in {[ok |-> TRUE, status |-> 0], [ok |-> FALSE, status |-> 502]} :
       /\ TaskDone(i, outcome)
       /\ UNCHANGED <<cacheVars, statsVars, selVars, preflightVars, handlerVars>>
  \/ /\ Return
     /\ UNCHANGED <<cacheVars, statsVars, selVars, preflightVars, handlerVars>>
  \/ /\ HandlePreflight
     /\ UNCHANGED <<cacheVars, statsVars, selVars, fanVars, handlerVars>>
  \/ \E i \in Clients, outcome \in { o \in PreflightOutcomes : o.XReason = "" } :
       /\ PreflightTaskDone(i, outcome)
       /\ UNCHANGED <<cacheVars, statsVars, selVars, fanVars, handlerVars>>
  \/ /\ PreflightReturn
     /\ UNCHANGED <<cacheVars, statsVars, selVars, fanVars, handlerVars>>

\* GET /<sha256> requests between uploads that failed on a server, of which
\* only the record HandleUpload leaves in the statistics is followed.
\* Uploads and mirrors whose peers answer with any of the outcomes of
\* Client.Upload and Client.Mirror.
QuorumNext ==
  \/ \E n \in 1..2, supportsMirror \in MirrorConfigs :
       /\ ManagerNew(n, supportsMirror) /\ SetStrategy("round_robin")
       /\ UNCHANGED <<cacheVars, statsVars, preflightVars, handlerVars>>
  \/ /\ HandleUpload(DigestA)
     /\ UNCHANGED <<cacheVars, statsVars, selVars, preflightVars>>
  \/ /\ HandleMirror
     /\ UNCHANGED <<cacheVars, statsVars, selVars, preflightVars>>
  \/ \E i \in Clients, outcome \in Outcomes :
       /\ i \in Dispatched(fan.kind)
       /\ TaskDone(i, outcome)
       /\ UNCHANGED <<cacheVars, statsVars, selVars, preflightVars, handlerVars>>
  \/ /\ Return
     /\ UNCHANGED <<cacheVars, statsVars, selVars, preflightVars, handlerVars>>
  \/ /\ HandleUploadResponse
     /\ UNCHANGED <<supportsUploadHead, preflight, preflightTasks, preflightChan, preflightRet>>
  \/ /\ HandleMirrorResponse
     /\ UNCHANGED <<supportsUploadHead, preflight, preflightTasks, preflightChan, preflightRet>>

RedirectNext ==
  \/ HandlerNew
  \/ \E i \in Clients :
       /\ req.pc = "idle"
       /\ RecordFailure(serverURLs[i], "upload")
       /\ UNCHANGED <<cacheVars, selVars, preflightVars, handlerVars, fanVars>>
  \/ /\ HandleLookup("download", DigestA)
     /\ UNCHANGED <<statsVars, selVars, resp, otherHandlerVars>>
  \/ \E arrival \in Orderings(Clients), answers \in [Clients -> HeadStatuses] :
       /\ HandleDownloadCheck(arrival, answers)
       /\ UNCHANGED otherHandlerVars
  \/ /\ HandleDownloadRedirect
     /\ UNCHANGED otherHandlerVars

\* ------------------------------------------------------------------------
\* package upstream (src/unnamed/part_003): listParallelInternal, the list
\* fan-out and the merge of the catalogs
\* ------------------------------------------------------------------------

\* The values of the sha256 field that are SHA-256 digests: "d1" and "d2"
\* stand for two strings of 64 hex characters.
ValidDigests == {"d1", "d2"}

\* An item of a catalog: the fields the merge reads. A field that is missing or
\* not a string is "", as the type assertions of the merge take it; nip94 is
\* the array of the tags, empty when the field is missing or not an array, and
\* a tag is the sequence of its strings.
Item(sha256, type, url, nip94) ==
  [sha256 |-> sha256, type |-> type, url |-> url, nip94 |-> nip94]

\* The items the upstream catalogs are made of: two items of one digest with
\* different fields, an item whose nip94 array repeats a url tag and has two x
\* tags, an item without sha256, and an item whose sha256 is not a digest.
CatalogItems ==
  { Item("d1", "t1", "u1", << >>),
    Item("d1", "", "u2", << >>),
    Item("d2", "t1", "u1", << <<"url", "u1">>, <<"url", "u1">>, <<"x", "d1">>, <<"x", "d2">> >>),
    Item("", "t1", "u3", << >>),
    Item("zz", "t1", "u3", << >>) }

\* The catalogs of at most MaxItems items.
Catalogs == SeqsUpTo(CatalogItems, MaxItems)

VARIABLES
  listing,    \* the call of listParallelInternal: position, keys left, merged
  listTasks,  \* per client: the state of its goroutine and what it sent
  allResults  \* the results in the order resultChan delivered them

listVars == <<listing, listTasks, allResults>>

NoCatalog == [state |-> "idle", Error |-> FALSE, Data |-> << >>]

\* The number of items the servers have returned so far.
RECURSIVE ItemsReturned(_, _)
ItemsReturned(results, n) ==
  IF n = 0 THEN 0 ELSE ItemsReturned(results, n - 1) + Len(results[n].Data)

\* listParallelInternal up to wg.Wait: one goroutine per client.
ListParallel ==
  /\ mgr.ready /\ listing.pc = "idle"
  /\ listing' = [listing EXCEPT !.pc = "wait"]
  /\ listTasks' = [i \in Clients |-> [NoCatalog EXCEPT !.state = "running"]]
  /\ UNCHANGED allResults

\* A goroutine sends its result: the error of c.List or of json.Unmarshal, or
\* the parsed catalog.
ListTaskDone(idx, failed, data) ==
  /\ listing.pc = "wait"
  /\ listTasks[idx].state = "running"
  /\ failed => data = << >>
  /\ ItemsReturned(allResults, Len(allResults)) + Len(data) <= MaxItems
  /\ listTasks' = [listTasks EXCEPT ![idx] = [state |-> "done", Error |-> failed, Data |-> data]]
  /\ allResults' = Append(allResults, [ServerURL |-> serverURLs[idx], Error |-> failed,
                                       Data |-> data])
  /\ UNCHANGED listing

\* The items of the first n results with their server, in the order of the
\* two loops: results with an error and items without sha256 are skipped.
RECURSIVE itemsWithServer(_, _)
itemsWithServer(results, n) ==
  IF n = 0 THEN << >>
  ELSE LET result == results[n]
           kept == SelectSeq(result.Data, LAMBDA item : item.sha256 # "")
       IN itemsWithServer(results, n - 1) \o
            ( IF result.Error THEN << >>
              ELSE [k \in 1..Len(kept) |-> [Item |-> kept[k], ServerURL |-> result.ServerURL]] )

\* itemsByHash[sha256Val]
itemsByHash(results, sha256Val) ==
  SelectSeq(itemsWithServer(results, Len(results)), LAMBDA e : e.Item.sha256 = sha256Val)

\* The keys of itemsByHash.
hashes(results) ==
  LET all == itemsWithServer(results, Len(results))
  IN { all[k].Item.sha256 : k \in 1..Len(all) }

\* wg.Wait returned and the results are collected and grouped by sha256.
ListCollect ==
  /\ listing.pc = "wait"
  /\ \A i \in Clients : listTasks[i].state = "done"
  /\ listing' = [listing EXCEPT !.pc = "merge", !.keys = hashes(allResults)]
  /\ UNCHANGED <<listTasks, allResults>>

hasTag(tags, tagType, tagValue) ==
  \E k \in 1..Len(tags) : Len(tags[k]) >= 2 /\ tags[k][1] = tagType /\ tags[k][2] = tagValue

hasTagType(tags, tagType) ==
  \E k \in 1..Len(tags) : Len(tags[k]) > 0 /\ tags[k][1] = tagType

\* The copy of the selected item's nip94 array: the tags that are not empty.
existingTags(selected) == SelectSeq(selected.nip94, LAMBDA tag : Len(tag) > 0)

\* The x tag is appended unless the tags have one.
withHashTag(tags, sha256Val) ==
  IF sha256Val # "" /\ ~hasTag(tags, "x", sha256Val) /\ ~hasTagType(tags, "x")
  THEN Append(tags, <<"x", sha256Val>>)
  ELSE tags

\* The m tag is appended unless the tags have one.
withMimeTag(tags, mimeType) ==
  IF mimeType # "" /\ ~hasTagType(tags, "m") THEN Append(tags, <<"m", mimeType>>) ELSE tags

\* The loop over the items of the hash: a url tag for each url that the tags
\* do not have yet.
RECURSIVE withURLTags(_, _, _)
withURLTags(tags, group, n) ==
  IF n = 0 THEN tags
  ELSE LET sofar == withURLTags(tags, group, n - 1)
           urlVal == group[n].Item.url
       IN IF urlVal # "" /\ ~hasTag(sofar, "url", urlVal)
          THEN Append(sofar, <<"url", urlVal>>)
          ELSE sofar

\* The merged item: a copy of the selected item with the tags as its nip94.
resultItem(selected, group, sha256Val) ==
  [selected EXCEPT !.nip94 =
     withURLTags(withMimeTag(withHashTag(existingTags(selected), sha256Val), selected.type),
                 group, Len(group))]

\* The item of the first entry of the group that came from the server.
itemOf(group, serverURL) ==
  LET from == SelectSeq(group, LAMBDA e : e.ServerURL = serverURL)
  IN IF Len(from) > 0 THEN from[1].Item ELSE group[1].Item

\* One round of the loop over itemsByHash, which runs in the order of a Go
\* map: the item of the only entry, or of the server SelectServerURL picks
\* among the servers of the entries, with the tags, is appended to merged.
ListMerge(sha256Val) ==
  /\ listing.pc = "merge"
  /\ sha256Val \in listing.keys
  /\ LET group == itemsByHash(allResults, sha256Val)
         urls == [k \in 1..Len(group) |-> group[k].ServerURL]
     IN IF Len(group) = 1
        THEN /\ listing' = [listing EXCEPT
                  !.keys = @ \ {sha256Val},
                  !.merged = Append(@, resultItem(group[1].Item, group, sha256Val))]
             /\ UNCHANGED selVars
        ELSE \E p \in SelectServerURLWithStrategy(serverStats, getTotalFailures, urls,
                                                  redirectStrategy, roundRobinIndex) :
               /\ roundRobinIndex' = p.index
               /\ picked' = Picked("SelectServerURL", urls, redirectStrategy, p)
               /\ listing' = [listing EXCEPT
                    !.keys = @ \ {sha256Val},
                    !.merged = Append(@, resultItem(IF p.err THEN group[1].Item
                                                    ELSE itemOf(group, p.server),
                                                    group, sha256Val))]
               /\ UNCHANGED <<redirectStrategy, getTotalFailures>>
  /\ UNCHANGED <<listTasks, allResults>>

\* listParallelInternal returns merged and allResults.
ListReturn ==
  /\ listing.pc = "merge" /\ listing.keys = {}
  /\ listing' = [listing EXCEPT !.pc = "returned"]
  /\ UNCHANGED <<listTasks, allResults, selVars>>

ListingInit ==
  /\ listing = [pc |-> "idle", keys |-> {}, merged |-> << >>]
  /\ listTasks = [i \in Clients |-> NoCatalog]
  /\ allResults = << >>

\* A list request to three servers under either strategy.
MergeNext ==
  \/ \E strategy \in HandlerStrategies :
       /\ ManagerNew(1, [i \in Clients |-> FALSE]) /\ SetStrategy(strategy)
       /\ UNCHANGED listVars
  \/ ListParallel /\ UNCHANGED <<fanVars, selVars>>
  \/ \E i \in Clients : ListTaskDone(i, TRUE, << >>) /\ UNCHANGED <<fanVars, selVars>>
  \/ \E i \in Clients, data \in Catalogs :
       ListTaskDone(i, FALSE, data) /\ UNCHANGED <<fanVars, selVars>>
  \/ ListCollect /\ UNCHANGED <<fanVars, selVars>>
  \/ \E sha256Val \in ValidDigests \cup {"zz"} : ListMerge(sha256Val) /\ UNCHANGED fanVars
  \/ ListReturn /\ UNCHANGED fanVars

\* ------------------------------------------------------------------------
\* package auth (src/unnamed/part_000)
\* ------------------------------------------------------------------------

\* Public keys as the event carries them: "k1", "k2" and "k3" stand for three
\* strings of 64 lower-case hex characters, "K1" for "k1" in upper case,
\* "short" for a string of another length and "nothex" for 64 characters that
\* are not hex.
PubKeys == {"k1", "K1", "k2", "short", "nothex"}

\* len(event.PubKey), 64 or not.
PubKeyLen(pubkey) == IF pubkey = "short" THEN 63 ELSE 64

\* hex.DecodeString succeeds on the key.
IsHex(pubkey) == pubkey # "nothex"

\* strings.ToLower
ToLower(pubkey) == IF pubkey = "K1" THEN "k1" ELSE pubkey

\* The verbs of the endpoints and of the t tag; "" is an event without t tag.
Verbs == {"upload", "delete"}

\* The expiration tag of an event: missing, not a number, or Unix seconds.
Expirations ==
  { [tag |-> "none", unix |-> 0], [tag |-> "text", unix |-> 0] } \cup
  { [tag |-> "unix", unix |-> t] : t \in 0..(MaxTime + 1) }

\* What event.CheckSignature returns: valid, not valid, or an error.
Signatures == {"valid", "invalid", "error"}

\* The Authorization header: missing, of another scheme, with a token that is
\* not base64 or not the JSON of an event, or with an event.
NoEvent == [Kind |-> 0, PubKey |-> "", sig |-> "invalid", t |-> "",
            expiration |-> [tag |-> "none", unix |-> 0]]

Events ==
  [Kind : {24242, 1}, PubKey : PubKeys, sig : Signatures, t : Verbs \cup {""},
   expiration : Expirations]

Headers ==
  { [form |-> f, event |-> NoEvent] : f \in {"", "Basic", "Nostr !base64", "Nostr !json"} } \cup
  { [form |-> "Nostr", event |-> e] : e \in Events }

\* The allow-sets BuildAllowedPubkeysMap gives: lower-case hex keys.
AllowSets == { {}, {"k1"}, {"k1", "k3"} }

VARIABLES
  auth   \* the last call of ValidateAuth: its arguments, the time, what it returned

AuthError(Reason, Code) == [Code |-> Code, Reason |-> Reason, pubkey |-> ""]

\* ParseAuthorizationHeader: the error, or no error and the event.
ParseAuthorizationHeader(authHeader) ==
  IF authHeader.form = ""
  THEN AuthError("Authorization header not found", 401)
  ELSE IF authHeader.form = "Basic"
  THEN AuthError("Authorization header must use Nostr scheme", 401)
  ELSE IF authHeader.form = "Nostr !base64"
  THEN AuthError("Failed to decode base64 authorization token", 401)
  ELSE IF authHeader.form = "Nostr !json"
  THEN AuthError("Failed to parse authorization event", 401)
  ELSE AuthError("", 0)

\* ValidateEvent: kind, public key, signature, allow-list; requiredVerb is not
\* read.
ValidateEvent(event, requiredVerb, allowedPubkeys) ==
  IF event.Kind # 24242 THEN AuthError("Invalid event kind", 401)
  ELSE IF PubKeyLen(event.PubKey) # 64
  THEN AuthError("Invalid pubkey format: must be 64 hex characters", 401)
  ELSE IF ~IsHex(event.PubKey) THEN AuthError("Invalid pubkey format: not valid hex", 401)
  ELSE IF event.sig = "error" THEN AuthError("Failed to verify signature", 401)
  ELSE IF event.sig # "valid" THEN AuthError("Invalid signature", 401)
  ELSE IF allowedPubkeys # {} /\ ToLower(event.PubKey) \notin allowedPubkeys
  THEN AuthError("Pubkey not in allowed list", 403)
  ELSE AuthError("", 0)

\* ValidateAuth: the error, or the lower-case public key.
ValidateAuthResult(authHeader, requiredVerb, allowedPubkeys) ==
  IF authHeader.form = "" THEN AuthError("Authorization header not found", 401)
  ELSE IF ParseAuthorizationHeader(authHeader).Code # 0
  THEN ParseAuthorizationHeader(authHeader)
  ELSE IF ValidateEvent(authHeader.event, requiredVerb, allowedPubkeys).Code # 0
  THEN ValidateEvent(authHeader.event, requiredVerb, allowedPubkeys)
  ELSE [AuthError("", 0) EXCEPT !.pubkey = ToLower(authHeader.event.PubKey)]

\* A call of ValidateAuth at the present time, for the request at hand.
ValidateAuth(authHeader, requiredVerb, allowedPubkeys) ==
  /\ ~auth.called
  /\ auth' = [called |-> TRUE, header |-> authHeader, requiredVerb |-> requiredVerb,
           allowedPubkeys |-> allowedPubkeys, at |-> now,
           ret |-> ValidateAuthResult(authHeader, requiredVerb, allowedPubkeys)]

NoAuth ==
  [called |-> FALSE, header |-> [form |-> "", event |-> NoEvent], requiredVerb |-> "",
   allowedPubkeys |-> {}, at |-> 0, ret |-> AuthError("", 0)]

\* The caller has taken what ValidateAuth returned; the next request may come.
AuthReturn ==
  /\ auth.called
  /\ auth' = NoAuth

AuthInit == auth = NoAuth

AuthNext ==
  \/ \E authHeader \in Headers, requiredVerb \in Verbs, allowedPubkeys \in AllowSets :
       ValidateAuth(authHeader, requiredVerb, allowedPubkeys) /\ UNCHANGED cacheVars
  \/ AuthReturn /\ UNCHANGED cacheVars
  \/ Tick /\ UNCHANGED auth

\* ------------------------------------------------------------------------
\* The catch-all route (src/cmd/server/main.go) and HandleHead
\* ------------------------------------------------------------------------

\* The characters hex.DecodeString accepts, as far as the paths use them.
HexChars == {"0", "1", "9", "a", "b", "f", "A", "F"}

\* hex.DecodeString succeeds on a string of even length.
IsHexString(str) == \A i \in 1..Len(str) : str[i] \in HexChars

\* The request paths after the leading slash: a digest, the digest with an
\* extension of one and of three characters, a path one character short of a
\* digest, 64 characters that are not hex.
RoutePaths ==
  { DigestA, DigestA \o <<".", "x">>, DigestA \o <<".", "p", "n", "g">>,
    SubSeq(DigestA, 1, HashLen - 1), [i \in 1..HashLen |-> "z"] }

VARIABLES
  routed   \* the request the mux received: its method and path, and the HEAD
           \* request the handler sent upstream for it, << >> or <<server, path>>

NoRoute == [method |-> "", path |-> EmptyPath, head |-> << >>]

\* The catch-all of main: not "/" and shorter than 64 characters, or the first
\* 64 characters not hex: 404. Else the request path is replaced by the first
\* 64 characters and the handler of the method is called; it looks the hash up
\* in the cache.
Route(method, path) ==
  /\ req.pc = "idle" /\ requests < MaxRequests
  /\ mgr.ready
  /\ routed' = [method |-> method, path |-> path, head |-> << >>]
  /\ IF Len(path) >= HashLen /\ IsHexString(SubSeq(path, 1, HashLen))
     THEN /\ HandleLookup(IF method = "GET" THEN "download" ELSE "head",
                          SubSeq(path, 1, HashLen))
          /\ UNCHANGED resp
     ELSE /\ resp' = [NoResponse EXCEPT !.status = 404]
          /\ requests' = requests + 1
          /\ UNCHANGED <<req, cacheVars>>

\* HandleHead on a miss: the check of the upstream servers, then 404, or the
\* cache entry for the servers found.
HandleHeadCheck(arrival, answers) ==
  /\ req.op = "head" /\ req.pc = "check"
  /\ LET servers == serversWithBlob(arrival, answers)
     IN IF Len(servers) = 0
        THEN /\ resp' = [NoResponse EXCEPT !.status = 404]
             /\ req' = [NoRequest EXCEPT !.op = req.op, !.hash = req.hash,
                                         !.answers = answers]
             /\ UNCHANGED cacheVars
        ELSE /\ Add(req.hash, servers)
             /\ req' = [req EXCEPT !.pc = "select", !.servers = servers, !.answers = answers]
             /\ UNCHANGED resp
  /\ UNCHANGED <<requests, statsVars, selVars, routed>>

\* HandleHead: SelectServerURL, then a HEAD request for the hash to the
\* selected server; the status of its answer is passed on, a failed request is
\* answered with 500.
HandleHeadProxy(status) ==
  /\ req.op = "head" /\ req.pc = "select"
  /\ \E p \in SelectServerURLWithStrategy(serverStats, getTotalFailures, req.servers,
                                          redirectStrategy, roundRobinIndex) :
       /\ roundRobinIndex' = p.index
       /\ picked' = Picked("SelectServerURL", req.servers, redirectStrategy, p)
       /\ IF p.err
          THEN /\ resp' = [NoResponse EXCEPT !.status = 500]
               /\ UNCHANGED routed
          ELSE /\ resp' = [NoResponse EXCEPT !.status = IF status = 0 THEN 500 ELSE status]
               /\ routed' = [routed EXCEPT !.head = <<p.server, req.hash>>]
  /\ req' = [NoRequest EXCEPT !.op = req.op, !.hash = req.hash]
  /\ UNCHANGED <<redirectStrategy, getTotalFailures, requests, cacheVars, statsVars>>

RouteInit == routed = NoRoute

\* GET and HEAD requests through the catch-all, one at a time.
RouteNext ==
  \/ HandlerNew /\ UNCHANGED routed
  \/ \E method \in {"GET", "HEAD"}, path \in RoutePaths :
       /\ Route(method, path)
       /\ UNCHANGED <<statsVars, selVars, otherHandlerVars>>
  \/ \E arrival \in Orderings(Clients), answers \in [Clients -> HeadStatuses] :
       /\ HandleDownloadCheck(arrival, answers)
       /\ UNCHANGED <<otherHandlerVars, routed>>
  \/ /\ HandleDownloadRedirect
     /\ UNCHANGED <<otherHandlerVars, routed>>
  \/ \E arrival \in Orderings(Clients), answers \in [Clients -> HeadStatuses] :
       /\ HandleHeadCheck(arrival, answers)
       /\ UNCHANGED otherHandlerVars
  \/ \E status \in HeadStatuses \cup {0} :
       /\ HandleHeadProxy(status)
       /\ UNCHANGED otherHandlerVars

\* ------------------------------------------------------------------------
\* Startup (src/cmd/server/main.go) and HandleHealth
\* ------------------------------------------------------------------------

\* config.Server.MaxMemoryBytes and config.Server.MaxGoroutines
MaxMemoryBytes == 2
MaxGoroutines == 2

\* What runtime.ReadMemStats and runtime.NumGoroutine can report.
MemoryReadings == 1..(MaxMemoryBytes + 1)
GoroutineReadings == 1..(MaxGoroutines + 1)

VARIABLES
  health   \* the answers of GET /health: how many, and the last one

\* The servers every entry of the map counts as healthy.
GetServerCount(ss) == Cardinality(DOMAIN ss)

\* Stats.GetHealthyCount
GetHealthyCount(ss) == Cardinality({ u \in DOMAIN ss : ss[u].IsHealthy })

NoHealth ==
  [calls |-> 0, status |-> 0, healthy |-> FALSE, healthy_count |-> 0,
   memoryBytes |-> 0, goroutines |-> 0]

\* main up to handler.New: the manager of the configuration, then
\* InitializeServers for the URLs of its servers.
Startup(minUploadServers) ==
  /\ statCall.op = "New"
  /\ ManagerNew(minUploadServers, [i \in Clients |-> FALSE])
  /\ InitializeServers({ serverURLs[i] : i \in Clients })

\* HandleHealth with the readings of the runtime.
HandleHealth(memoryBytes, numGoroutine) ==
  LET healthyCount == GetHealthyCount(serverStats)
      memoryHealthy == memoryBytes < MaxMemoryBytes
      goroutinesHealthy == numGoroutine < MaxGoroutines
      serversHealthy == healthyCount >= mgr.minUploadServers
      systemHealthy == memoryHealthy /\ goroutinesHealthy /\ serversHealthy
  IN /\ mgr.ready /\ health.calls < MaxRequests
     /\ health' = [calls |-> health.calls + 1,
                   status |-> IF systemHealthy THEN 200 ELSE 503,
                   healthy |-> systemHealthy, healthy_count |-> healthyCount,
                   memoryBytes |-> memoryBytes, goroutines |-> numGoroutine]

HealthInit == health = NoHealth

\* The server from its start: the results of the requests it handles reach the
\* statistics, GET /health is answered in between.
HealthNext ==
  \/ \E minUploadServers \in Clients :
       /\ Startup(minUploadServers)
       /\ UNCHANGED <<health, cacheVars, selVars, preflightVars, handlerVars>>
  \/ \E i \in Clients, opType \in {"upload", "download"} :
       /\ mgr.ready
       /\ RecordSuccess(serverURLs[i], opType)
       /\ UNCHANGED <<health, cacheVars, fanVars, selVars, preflightVars, handlerVars>>
  \/ \E i \in Clients, opType \in {"upload", "delete"} :
       /\ mgr.ready
       /\ RecordFailure(serverURLs[i], opType)
       /\ UNCHANGED <<health, cacheVars, fanVars, selVars, preflightVars, handlerVars>>
  \/ \E S \in SUBSET { serverURLs[i] : i \in Clients } :
       /\ mgr.ready
       /\ InitializeServers(S)
       /\ UNCHANGED <<health, cacheVars, fanVars, selVars, preflightVars, handlerVars>>
  \/ \E memoryBytes \in MemoryReadings, numGoroutine \in GoroutineReadings :
       /\ HandleHealth(memoryBytes, numGoroutine)
       /\ UNCHANGED <<cacheVars, statsVars, fanVars, selVars, preflightVars, handlerVars>>

\* ------------------------------------------------------------------------
\* HandleDelete and HandleDownload at the same time
\* (src/internal/handler/blossom.go)
\* ------------------------------------------------------------------------

VARIABLES
  race   \* a DELETE and a GET of the same hash, each in its own goroutine:
         \* upstream: the servers that hold the blob; del: the DELETE, its
         \* list, the next server of the loop, the servers whose delete
         \* succeeded, its status; get: the GET, its list, its redirect target

NoDelete == [pc |-> "idle", servers |-> << >>, k |-> 1, succeeded |-> {}, status |-> 0]

NoLookup == [pc |-> "idle", servers |-> << >>, target |-> "", status |-> 0, count |-> 0]

\* The servers of the configuration that hold the blob, in the order of the
\* configuration.
serversHolding(holding) ==
  LET found == SelectSeq([i \in Clients |-> i], LAMBDA i : serverURLs[i] \in holding)
  IN [k \in 1..Len(found) |-> serverURLs[found[k]]]

\* The blob is on some servers; the cache knows them, or knows nothing (the
\* proxy was restarted, or the entry has expired and was dropped).
RaceSetup(holding, cached) ==
  /\ race.del.pc = "idle" /\ race.get.pc = "idle" /\ race.upstream = {}
  /\ race.get.count = 0
  /\ holding # {}
  /\ race' = [race EXCEPT !.upstream = holding]
  /\ IF cached THEN Add(DigestA, serversHolding(holding)) ELSE UNCHANGED cacheVars
  /\ UNCHANGED statsVars

\* HandleDelete: the lookup of the hash; without an entry every server is asked.
RaceDeleteStart ==
  /\ race.del.pc = "idle" /\ race.upstream # {}
  /\ Get(DigestA)
  /\ race' = [race EXCEPT !.del = [NoDelete EXCEPT
                !.pc = "forward",
                !.servers = IF lastCall'.ret.ok THEN lastCall'.ret.servers ELSE serverURLs]]
  /\ UNCHANGED statsVars

\* HandleDelete: the DELETE to the next server of the list and its record. The
\* server deletes a blob it holds, or the request fails.
RaceDeleteForward(ok) ==
  /\ race.del.pc = "forward" /\ race.del.k <= Len(race.del.servers)
  /\ LET serverURL == race.del.servers[race.del.k]
         deleted == ok /\ serverURL \in race.upstream
     IN /\ race' = [race EXCEPT
                      !.upstream = IF deleted THEN @ \ {serverURL} ELSE @,
                      !.del.k = @ + 1,
                      !.del.succeeded = IF deleted THEN @ \cup {serverURL} ELSE @]
        /\ serverStats' = Recorded(serverStats, serverURL, "delete", deleted)
        /\ statCall' = [op |-> IF deleted THEN "RecordSuccess" ELSE "RecordFailure",
                        url |-> serverURL, opType |-> "delete"]
  /\ UNCHANGED cacheVars

\* HandleDelete after the loop: Remove and 204 when a delete succeeded, else 500.
RaceDeleteFinish ==
  /\ race.del.pc = "forward" /\ race.del.k > Len(race.del.servers)
  /\ IF race.del.succeeded # {}
     THEN /\ Remove(DigestA)
          /\ race' = [race EXCEPT !.del.pc = "done", !.del.status = 204]
     ELSE /\ race' = [race EXCEPT !.del.pc = "done", !.del.status = 500]
          /\ UNCHANGED cacheVars
  /\ UNCHANGED statsVars

\* HandleDownload: the lookup of the hash.
RaceLookupStart ==
  /\ race.get.pc \in {"idle", "done"} /\ race.get.count < MaxRequests
  /\ race.upstream # {} \/ race.del.pc # "idle"
  /\ Get(DigestA)
  /\ race' = [race EXCEPT !.get = [NoLookup EXCEPT
                !.count = race.get.count + 1,
                !.servers = lastCall'.ret.servers,
                !.pc = IF ~lastCall'.ret.ok \/ Len(lastCall'.ret.servers) = 0
                       THEN "check" ELSE "select"]]
  /\ UNCHANGED statsVars

\* HandleDownload on a miss: CheckHashOnServers has its answers; 404 when no
\* server holds the blob.
RaceLookupCheck ==
  /\ race.get.pc = "check"
  /\ LET servers == serversHolding(race.upstream)
     IN race' = [race EXCEPT !.get.servers = servers,
                             !.get.pc = IF Len(servers) = 0 THEN "done" ELSE "add",
                             !.get.status = IF Len(servers) = 0 THEN 404 ELSE 0]
  /\ UNCHANGED <<cacheVars, statsVars>>

\* HandleDownload on a miss: the servers found go to the cache.
RaceLookupAdd ==
  /\ race.get.pc = "add"
  /\ Add(DigestA, race.get.servers)
  /\ race' = [race EXCEPT !.get.pc = "select"]
  /\ UNCHANGED statsVars

\* HandleDownload: a server of the list is selected, recorded and the client
\* redirected to it.
RaceLookupRedirect(k) ==
  /\ race.get.pc = "select" /\ k \in 1..Len(race.get.servers)
  /\ race' = [race EXCEPT !.get.pc = "done", !.get.status = 307,
                          !.get.target = race.get.servers[k]]
  /\ serverStats' = Recorded(serverStats, race.get.servers[k], "download", TRUE)
  /\ statCall' = [op |-> "RecordSuccess", url |-> race.get.servers[k], opType |-> "download"]
  /\ UNCHANGED cacheVars

RaceInit == race = [upstream |-> {}, del |-> NoDelete, get |-> NoLookup]

\* One DELETE and up to MaxRequests GETs of the hash, their steps interleaved.
RaceNext ==
  \/ \E holding \in SUBSET { serverURLs[i] : i \in Clients }, cached \in BOOLEAN :
       RaceSetup(holding, cached)
  \/ RaceDeleteStart
  \/ \E ok \in BOOLEAN : RaceDeleteForward(ok)
  \/ RaceDeleteFinish
  \/ RaceLookupStart
  \/ RaceLookupCheck
  \/ RaceLookupAdd
  \/ \E k \in Clients : RaceLookupRedirect(k)

vars ==
  <<items, now, lastCall, serverStats, statCall,
    mgr, fan, tasks, resultChan, ret, body, producer, digest, writers,
    roundRobinIndex, redirectStrategy, getTotalFailures, picked,
    roundRobinMutex, goroutines, selections,
    supportsUploadHead, preflight, preflightTasks, preflightChan, preflightRet, resp,
    req, requests, listing, listTasks, allResults, auth, routed, health, stream, race>>

Init ==
  /\ CacheInit /\ StatsInit /\ FanInit /\ SelInit /\ RoundRobinInit /\ PreflightInit
  /\ HandlerInit /\ ListingInit /\ AuthInit /\ RouteInit
  /\ HealthInit /\ StreamInit /\ RaceInit

CacheSpec ==
  Init /\ [][ /\ CacheNext
              /\ UNCHANGED <<statsVars, fanVars, selVars, rrVars, preflightVars, handlerVars, listVars, auth, routed, health, stream, race>>
            ]_vars

ListSpec ==
  Init /\ [][ /\ ListNext
              /\ UNCHANGED <<statsVars, fanVars, selVars, rrVars, preflightVars, handlerVars, listVars, auth, routed, health, stream, race>>
            ]_vars

StatsSpec ==
  Init /\ [][ /\ StatsNext
              /\ UNCHANGED <<cacheVars, fanVars, selVars, rrVars, preflightVars, handlerVars, listVars, auth, routed, health, stream, race>>
            ]_vars

Spec ==
  Init /\ [][ /\ FanNext
              /\ UNCHANGED <<cacheVars, statsVars, selVars, rrVars, preflightVars, handlerVars, listVars, auth, routed, health, stream, race>>
            ]_vars

SelectSpec ==
  Init /\ [][SelNext /\ UNCHANGED <<cacheVars, fanVars, rrVars, preflightVars, handlerVars, listVars, auth, routed, health, stream, race>>]_vars

RoundRobinSpec ==
  Init /\ [][ /\ RoundRobinNext
              /\ UNCHANGED <<cacheVars, statsVars, fanVars, preflightVars, handlerVars, listVars, auth, routed, health, stream, race>>
              /\ UNCHANGED <<redirectStrategy, getTotalFailures, picked>> ]_vars

PreflightSpec ==
  Init /\ [][ /\ PreflightNext
              /\ UNCHANGED <<cacheVars, statsVars, selVars, rrVars, handlerVars, listVars, auth, routed, health, stream, race>> ]_vars

UploadSpec == Init /\ [][UploadNext /\ UNCHANGED <<rrVars, listVars, auth, routed, health, stream, race>>]_vars

HandlerSpec == Init /\ [][HandlerNext /\ UNCHANGED <<rrVars, listVars, auth, routed, health, stream, race>>]_vars

ObservedSpec == Init /\ [][ObservedNext /\ UNCHANGED <<rrVars, listVars, auth, routed, health, stream, race>>]_vars

RedirectSpec == Init /\ [][RedirectNext /\ UNCHANGED <<rrVars, listVars, auth, routed, health, stream, race>>]_vars

MergeSpec ==
  Init /\ [][ /\ MergeNext
              /\ UNCHANGED <<cacheVars, statsVars, rrVars, preflightVars, handlerVars, auth, routed, health, stream, race>> ]_vars

AuthSpec ==
  Init /\ [][ /\ AuthNext
              /\ UNCHANGED <<statsVars, fanVars, selVars, rrVars, preflightVars, handlerVars,
                             listVars, routed, health, stream, race>> ]_vars

RouteSpec == Init /\ [][RouteNext /\ UNCHANGED <<rrVars, listVars, auth, health, stream, race>>]_vars

HealthSpec ==
  Init /\ [][HealthNext /\ UNCHANGED <<rrVars, listVars, auth, routed, stream, race>>]_vars

\* The scheduler runs every goroutine that can take a step: the copying
\* goroutine reads, writes and closes, every request comes to an end (at the
\* latest when the deadline of uploadCtx passes), and the caller returns once
\* wg.Wait lets it.
StreamFairness ==
  /\ WF_<<fanVars, stream>>((ProducerRead \/ ProducerWrite \/ ProducerClose) /\ UNCHANGED stream)
  /\ \A i \in Clients :
       WF_<<fanVars, stream>>(\E outcome \in UploadOutcomes(i) :
                                TaskDone(i, outcome) /\ UNCHANGED stream)
  /\ WF_<<fanVars, stream>>(Return /\ UNCHANGED stream)

StreamSpec ==
  Init /\ [][ /\ StreamNext
              /\ UNCHANGED <<cacheVars, statsVars, selVars, rrVars, preflightVars, handlerVars,
                             listVars, auth, routed, health, race>> ]_vars

StreamLiveSpec ==
  /\ Init
  /\ [][ /\ StreamLiveNext
         /\ UNCHANGED <<cacheVars, statsVars, selVars, rrVars, preflightVars, handlerVars,
                        listVars, auth, routed, health, race>> ]_vars
  /\ StreamFairness

QuorumSpec == Init /\ [][QuorumNext /\ UNCHANGED <<rrVars, listVars, auth, routed, health, stream, race>>]_vars

CapableSpec == Init /\ [][CapableNext /\ UNCHANGED <<rrVars, listVars, auth, routed, health, stream, race>>]_vars

RaceSpec ==
  Init /\ [][ /\ RaceNext
              /\ UNCHANGED <<fanVars, selVars, rrVars, preflightVars, handlerVars, listVars, auth,
                             routed, health, stream>> ]_vars

\* ------------------------------------------------------------------------
\* Properties of the cache
\* ------------------------------------------------------------------------

\* A step of a cache call: every call leaves the clock alone and names itself
\* in lastCall; only Tick moves the clock.
CallStep(op) == now' = now /\ lastCall'.op = op

AnyCallStep == now' = now

\* The slot a call on path p addresses, stated on the characters: the prefix
\* of p that has 64 characters, or all of p when p has fewer.
SlotOf(p) ==
  CHOOSE k \in { SubSeq(p, 1, n) : n \in 0..Len(p) } :
    Len(k) = HashLen \/ (Len(k) < HashLen /\ Len(k) = Len(p))

\* The key is present with the same entry before and after the step.
Untouched(k) ==
  /\ (k \in DOMAIN items) = (k \in DOMAIN items')
  /\ k \in DOMAIN items => items'[k] = items[k]

NoDup(servers) ==
  \A i, j \in 1..Len(servers) : servers[i] = servers[j] => i = j

AllNoDup(its) == \A k \in DOMAIN its : NoDup(its[k].servers)

AllNonEmpty(its) == \A k \in DOMAIN its : Len(its[k].servers) > 0

\* C3: in every reachable state the cache holds at most maxSize entries.
CacheSizeBound == Cardinality(DOMAIN items) <= maxSize

\* C4: a Get on an entry created more than ttl ago returns absent and deletes
\* the entry; a Get that returns a list returns the list of an entry created at
\* most ttl ago; a Get never creates an entry, so an absent key stays absent for
\* every later Get until an Add or AddServer creates it again.
TTLCorrect ==
  [][ CallStep("Get") =>
        LET h == SlotOf(lastCall'.path)
        IN
          /\ (h \in DOMAIN items /\ now - items[h].createdAt > ttl)
               => (~lastCall'.ret.ok /\ h \notin DOMAIN items')
          /\ lastCall'.ret.ok
               => /\ h \in DOMAIN items
                  /\ now - items[h].createdAt <= ttl
                  /\ lastCall'.ret.servers = items[h].servers
          /\ h \notin DOMAIN items => ~lastCall'.ret.ok
          /\ DOMAIN items' \subseteq DOMAIN items
          /\ \A k \in DOMAIN items' : items'[k].createdAt = items[k].createdAt ]_vars

\* C4 witness: a Get found its entry expired, deleted it and returned absent.
TTLWitness ==
  /\ lastCall.op = "Get"
  /\ lastCall.branch = "expired"
  /\ ~lastCall.ret.ok
  /\ extractHash(lastCall.path) \notin DOMAIN items

\* C5: when a new key is admitted into a full cache, then if some entry is
\* expired exactly the expired entries are removed, and if none is expired
\* exactly one entry is removed, one of smallest last-access time.
EvictionOrder ==
  [][ (AnyCallStep /\ lastCall'.branch = "evict") =>
        LET expired == { k \in DOMAIN items : now - items[k].createdAt > ttl }
            removed == DOMAIN items \ DOMAIN items'
        IN IF expired # {}
           THEN removed = expired
           ELSE /\ Cardinality(removed) = 1
                /\ \A k \in removed : \A j \in DOMAIN items :
                     items[k].lastAccess <= items[j].lastAccess ]_vars

\* C6 as stated: a call on a path shorter than 64 characters changes nothing
\* and returns nothing.
ShortPathNoOp ==
  [][ (AnyCallStep /\ Len(lastCall'.path) < HashLen) =>
        (items' = items /\ ~lastCall'.ret.ok) ]_vars

\* C6 amended: every call on a path p addresses the slot whose key is p[:64]
\* when p has at least 64 characters and p itself when it is shorter: the call
\* creates or changes no other key, Add and AddServer leave that key present,
\* Get returns the list stored under it, and Get, Remove and RemoveServer leave
\* every other key as it was.
CanonicalSlot ==
  [][ AnyCallStep =>
        LET h == SlotOf(lastCall'.path)
        IN
          /\ \A k \in DOMAIN items' \ {h} : k \in DOMAIN items /\ items'[k] = items[k]
          /\ lastCall'.op \in {"Add", "AddServer"} => h \in DOMAIN items'
          /\ lastCall'.op \in {"Get", "Remove", "RemoveServer"}
               => \A k \in DOMAIN items \ {h} : Untouched(k)
          /\ lastCall'.op = "Remove" => h \notin DOMAIN items'
          /\ lastCall'.ret.ok
               => (h \in DOMAIN items /\ lastCall'.ret.servers = items[h].servers) ]_vars

\* C6 witness: a Get on <digest>.<ext> returned the list stored under <digest>,
\* while an entry stored under a path shorter than 64 characters exists.
CanonicalSlotWitness ==
  /\ lastCall.op = "Get"
  /\ Len(lastCall.path) > HashLen
  /\ lastCall.ret.ok
  /\ SubSeq(lastCall.path, 1, HashLen) \in DOMAIN items
  /\ \E k \in DOMAIN items : Len(k) < HashLen /\ Len(k) > 0

\* C7 as stated: no entry's server list contains the same URL twice.
NoDuplicateServers == AllNoDup(items)

\* C7 amended: Add stores the list it is given; no call other than an Add whose
\* own argument repeats a URL introduces a duplicate into a cache whose lists
\* are free of duplicates.
NoDuplicateIntroduced ==
  [][ ( /\ AnyCallStep
        /\ AllNoDup(items)
        /\ ~(lastCall'.op = "Add" /\ ~NoDup(lastCall'.arg)) )
      => AllNoDup(items') ]_vars

\* C7 witness: AddServer was called with a server the entry already lists and
\* the list still names it once.
NoDuplicateWitness ==
  /\ lastCall.op = "AddServer"
  /\ lastCall.branch = "present"
  /\ extractHash(lastCall.path) \in DOMAIN items
  /\ NoDup(items[extractHash(lastCall.path)].servers)
  /\ Len(items[extractHash(lastCall.path)].servers) = 2

\* C8 as stated: no entry has an empty server list.
NoEmptyServers == AllNonEmpty(items)

\* C8 amended: no call other than an Add with an empty list leaves an entry
\* with an empty list in a cache that had none; in particular a RemoveServer
\* that removes the last server deletes the entry.
NoEmptyIntroduced ==
  [][ ( /\ AnyCallStep
        /\ AllNonEmpty(items)
        /\ ~(lastCall'.op = "Add" /\ Len(lastCall'.arg) = 0) )
      => /\ AllNonEmpty(items')
         /\ lastCall'.branch = "emptied" => extractHash(lastCall'.path) \notin DOMAIN items' ]_vars

\* C8 witness: RemoveServer removed the last server of an entry and the entry
\* is gone.
NoEmptyWitness ==
  /\ lastCall.op = "RemoveServer"
  /\ lastCall.branch = "emptied"
  /\ extractHash(lastCall.path) \notin DOMAIN items

\* ------------------------------------------------------------------------
\* Properties of the statistics tracker
\* ------------------------------------------------------------------------

\* The counters as they are before a call that may create the entry.
StatsBefore(u) == IF u \in DOMAIN serverStats THEN serverStats[u] ELSE NewServerStats

\* The counter each operation type owns for successes and for failures; a
\* download has no failure counter.
SuccessOf ==
  [upload |-> "UploadsSuccess", download |-> "Downloads", mirror |-> "MirrorsSuccess",
   delete |-> "DeletesSuccess", list |-> "ListsSuccess"]

FailureOf ==
  [upload |-> "UploadsFailure", download |-> "no counter", mirror |-> "MirrorsFailure",
   delete |-> "DeletesFailure", list |-> "ListsFailure"]

OthersUnchanged(u) ==
  \A v \in DOMAIN serverStats' \ {u} : v \in DOMAIN serverStats /\ serverStats'[v] = serverStats[v]

StatsMonotone ==
  [][ /\ \A u \in DOMAIN serverStats :
           /\ u \in DOMAIN serverStats'
           /\ \A c \in Counters : serverStats'[u][c] >= serverStats[u][c]
      /\ statCall'.op = "RecordSuccess" =>
           LET u == statCall'.url
           IN /\ serverStats'[u].ConsecutiveFailures = 0
              /\ \A c \in Counters :
                   serverStats'[u][c] =
                     StatsBefore(u)[c] + (IF c = SuccessOf[statCall'.opType] THEN 1 ELSE 0)
              /\ OthersUnchanged(u)
      /\ statCall'.op = "RecordFailure" =>
           LET u == statCall'.url
           IN /\ serverStats'[u].ConsecutiveFailures = StatsBefore(u).ConsecutiveFailures + 1
              /\ \A c \in Counters :
                   serverStats'[u][c] =
                     StatsBefore(u)[c] + (IF c = FailureOf[statCall'.opType] THEN 1 ELSE 0)
              /\ OthersUnchanged(u) ]_vars

\* C10 witness: a RecordSuccess for a server with an earlier recorded failure
\* left its failure streak at 0 and its failure counter in place.
StatsMonotoneWitness ==
  /\ statCall.op = "RecordSuccess"
  /\ statCall.opType = "upload"
  /\ serverStats[statCall.url].ConsecutiveFailures = 0
  /\ serverStats[statCall.url].UploadsFailure = 1
  /\ serverStats[statCall.url].UploadsSuccess = 1

\* ------------------------------------------------------------------------
\* Properties of the fan-out operations
\* ------------------------------------------------------------------------

\* The clients of the call whose request succeeded.
Succeeded == { i \in Dispatched(fan.kind) : tasks[i].state = "done" /\ tasks[i].outcome.ok }

\* The statuses of the clients of the call whose request failed with one.
FailedStatuses ==
  { tasks[i].outcome.status :
      i \in { j \in Dispatched(fan.kind) :
                tasks[j].state = "done" /\ ~tasks[j].outcome.ok /\ tasks[j].outcome.status > 0 } }

\* C1: when a buffered upload, a streaming upload or a mirror fan-out returns,
\* its verdict depends only on which peers succeeded and which statuses the
\* failing peers returned, not on the order the results arrived in: with at
\* least minUploadServers successes it returns exactly the successful peers and
\* no error; otherwise it returns an UploadError carrying the lowest status
\* among the failing peers that returned one, or, when none did, a plain error
\* that the handler answers with 500.
QuorumVerdict ==
  fan.pc = "returned" =>
    IF Cardinality(Succeeded) >= mgr.minUploadServers
    THEN /\ ret.err = NoError
         /\ Len(ret.servers) = Cardinality(Succeeded)
         /\ { ret.servers[k] : k \in 1..Len(ret.servers) } = { serverURLs[i] : i \in Succeeded }
    ELSE IF FailedStatuses # {}
    THEN /\ ret.err.kind = "UploadError"
         /\ ret.err.StatusCode \in FailedStatuses
         /\ \A c \in FailedStatuses : ret.err.StatusCode <= c
         /\ ClientStatus(ret.err) = ret.err.StatusCode
    ELSE /\ ret.err.kind = "error"
         /\ ClientStatus(ret.err) = 500

\* A streaming upload failed quorum with every peer reporting, and the first
\* status to arrive was not the lowest.
QuorumVerdictWitness ==
  /\ fan.kind = "streaming" /\ fan.pc = "returned"
  /\ Len(resultChan) = Len(serverURLs)
  /\ ret.err.kind = "UploadError"
  /\ ~resultChan[1].Success
  /\ resultChan[1].StatusCode > ret.err.StatusCode

\* C2: when a streaming upload returns, whichever peers failed mid-stream
\* (all of them included) while the others took the whole stream, the producer
\* has read and written every chunk of the body, and the hash the caller holds
\* is the hash of the whole body.
StreamingComplete ==
  ( /\ fan.kind = "streaming" /\ fan.pc = "returned"
    /\ \A i \in Clients : tasks[i].outcome.ok => writers[i].got = Len(body) )
  => /\ producer.read = Len(body)
     /\ producer.pc \in {"read", "close", "done"}
     /\ ret.digest = HashSum(body)

\* The kinds of error a fan-out returns when it fails quorum.
QuorumFailedKinds ==
  { Verdict(<<UploadResult(1, o)>>, 1).err.kind : o \in { x \in Outcomes : ~x.ok } }

\* C14: MirrorParallel sends its request only to peers whose SupportsMirror is
\* set; when no peer has the capability it returns without a request to any
\* peer, with an error whose kind is not one a quorum failure has.
MirrorGating ==
  fan.kind = "mirror" =>
    /\ \A i \in Clients : tasks[i].state # "idle" => mgr.SupportsMirror[i]
    /\ (\A i \in Clients : ~mgr.SupportsMirror[i]) =>
         /\ fan.pc = "returned"
         /\ \A i \in Clients : tasks[i].state = "idle"
         /\ resultChan = << >>
         /\ ret.err.kind # "nil"
         /\ ret.err.kind \notin QuorumFailedKinds

\* ------------------------------------------------------------------------
\* Properties of the selection
\* ------------------------------------------------------------------------

\* The index in a list of a server that occurs in it.
IndexOf(list, url) == CHOOSE i \in 1..Len(list) : list[i] = url

\* The lowest of a non-empty set of numbers.
Lowest(S) == CHOOSE x \in S : \A y \in S : x <= y

\* A selection by round-robin over the list, with c the index it finds: the
\* server at c modulo the length, and the index one higher afterwards.
RoundRobinOver(list, c, server, after) ==
  /\ server = list[(c % Len(list)) + 1]
  /\ after = c + 1

\* C19: a selection by priority over a non-empty list returns a server of the
\* list whose configured priority is the lowest of the list, the first such
\* server in the order of the list, and leaves the round-robin index as it was.
PrioritySelection ==
  /\ roundRobinIndex = picked.after
  /\ (picked.strategy = "priority" /\ Len(picked.availableServers) > 0) =>
       LET list == picked.availableServers
           lowest == Lowest({ serverPriorities[IndexOf(serverURLs, list[k])] : k \in 1..Len(list) })
       IN /\ ~picked.err
          /\ \E i \in 1..Len(list) :
               /\ list[i] = picked.server
               /\ serverPriorities[IndexOf(serverURLs, list[i])] = lowest
               /\ \A k \in 1..(i - 1) : serverPriorities[IndexOf(serverURLs, list[k])] > lowest
          /\ picked.after = picked.before

\* C19 witness: of two servers tied at the lowest priority, the first of the
\* list was selected although it is the last of the configuration.
PrioritySelectionWitness ==
  /\ picked.strategy = "priority"
  /\ picked.availableServers = <<"P3", "P2", "P1">>
  /\ picked.server = "P3"
  /\ picked.before > 0

\* C20: a selection by health_based with the failure getter attached returns
\* the server that round-robin picks among the servers of the list with the
\* fewest total failures; without the getter, and for a strategy name without
\* a case of its own, and for "local", the selection is round-robin over the
\* whole list. Each of these selections raises the round-robin index by one.
HealthBasedSelection ==
  /\ [][ roundRobinIndex' # roundRobinIndex =>
           LET list == picked'.availableServers
               least == Lowest({ TotalFailures(serverStats, list[k]) : k \in 1..Len(list) })
               best == SelectSeq(list, LAMBDA url : TotalFailures(serverStats, url) = least)
           IN IF picked'.strategy = "health_based" /\ getTotalFailures = "attached"
              THEN RoundRobinOver(best, roundRobinIndex, picked'.server, roundRobinIndex')
              ELSE RoundRobinOver(list, roundRobinIndex, picked'.server, roundRobinIndex') ]_vars
  /\ []( ( /\ picked.op # "New" /\ ~picked.err
            /\ picked.strategy \in {"health_based", "local", "unknown"} )
          => picked.after = picked.before + 1 )

\* C20 witness: with the getter attached, the first server of the list has a
\* recorded failure and the selection went to the next one although the
\* round-robin index pointed at the first.
HealthBasedWitness ==
  /\ picked.strategy = "health_based"
  /\ getTotalFailures = "attached"
  /\ picked.availableServers = serverURLs
  /\ TotalFailures(serverStats, "P1") > 0
  /\ picked.before = 0
  /\ picked.server = "P2"

\* C18: every round-robin selection over k >= 1 servers returns the server at
\* c modulo k of its list, c being the index it found; concurrent selections
\* never find the same index, and no increment is lost: the index equals the
\* number of selections that have stored theirs.
RoundRobinSerialised ==
  /\ \A i \in 1..Len(selections) :
       LET sel == selections[i]
       IN /\ sel.server = sel.availableServers[(sel.c % Len(sel.availableServers)) + 1]
          /\ \A j \in 1..Len(selections) : i # j => selections[j].c # sel.c
          /\ \A g \in Goroutines :
               goroutines[g].pc \in {"load", "store", "unlock"} => goroutines[g].c # sel.c
  /\ \A g, h \in Goroutines :
       ( /\ g # h
         /\ goroutines[g].pc \in {"load", "store", "unlock"}
         /\ goroutines[h].pc \in {"load", "store", "unlock"} )
       => goroutines[g].c # goroutines[h].c
  /\ roundRobinIndex =
       Len(selections) + Cardinality({ g \in Goroutines : goroutines[g].pc = "unlock" })

\* C18 witness: three selections over different lists have returned, and the
\* last found the index at 2 and took the server at 2 modulo 2 of its list.
RoundRobinWitness ==
  /\ Len(selections) = 3
  /\ roundRobinIndex = 3
  /\ selections[3].c = 2
  /\ Len(selections[3].availableServers) = 2
  /\ selections[3].server = "P2"
  /\ selections[1].availableServers # selections[2].availableServers

\* ------------------------------------------------------------------------
\* Properties of HEAD /upload
\* ------------------------------------------------------------------------

\* The clients whose answer to HEAD /upload was 200.
PreflightAccepted ==
  { i \in Clients : /\ preflightTasks[i].state = "done"
                    /\ ~preflightTasks[i].outcome.failed
                    /\ preflightTasks[i].outcome.status = 200 }

\* The statuses of the clients that answered HEAD /upload with another status.
PreflightRejectedStatuses ==
  { preflightTasks[i].outcome.status :
      i \in { j \in Clients : /\ preflightTasks[j].state = "done"
                              /\ ~preflightTasks[j].outcome.failed
                              /\ preflightTasks[j].outcome.status # 200 } }

\* HEAD /upload went to capable servers only.
PreflightGated ==
  \A i \in Clients : preflightTasks[i].state # "idle" => supportsUploadHead[i]

\* The verdict of the preflight over the answers of the servers it asked.
PreflightAggregated ==
  IF Cardinality(PreflightAccepted) >= mgr.minUploadServers
  THEN /\ preflightRet.err = NoError
       /\ Len(preflightRet.results) = Cardinality(uploadHeadCapable)
       /\ { preflightRet.results[k] : k \in 1..Len(preflightRet.results) }
            = { UploadPreflightResult(i, preflightTasks[i].outcome) : i \in uploadHeadCapable }
  ELSE /\ preflightRet.err.kind = "UploadError"
       /\ IF PreflightRejectedStatuses # {}
          THEN preflightRet.err.StatusCode = Lowest(PreflightRejectedStatuses)
          ELSE preflightRet.err.StatusCode = 400

FirstReason ==
  CHOOSE k \in 1..Len(preflightChan) :
    /\ ~preflightChan[k].Accepted /\ preflightChan[k].XReason # ""
    /\ \A j \in 1..(k - 1) : preflightChan[j].Accepted \/ preflightChan[j].XReason = ""

\* C16: when the preflight fails quorum and a rejecting server set an X-Reason
\* header, the X-Reason of the response to the client is the reason of the
\* first such rejection in arrival order.
PreflightReason ==
  ( /\ preflight = "responded"
    /\ uploadHeadCapable # {}
    /\ Cardinality(PreflightAccepted) < mgr.minUploadServers
    /\ \E k \in 1..Len(preflightChan) :
         ~preflightChan[k].Accepted /\ preflightChan[k].XReason # "" )
  => /\ resp.XReason = preflightChan[FirstReason].XReason
     /\ resp.XReason # preflightRet.err.msg

\* C16 witness: the first result has no reason, the second and the third
\* rejections have different reasons, and the response carries the second's.
PreflightReasonWitness ==
  /\ preflight = "responded"
  /\ Len(preflightChan) = 3
  /\ preflightChan[1].XReason = ""
  /\ ~preflightChan[2].Accepted /\ preflightChan[2].XReason = "r2"
  /\ ~preflightChan[3].Accepted /\ preflightChan[3].XReason = "r1"
  /\ resp.XReason = "r2"

\* C17: the status of the response to HEAD /upload is 200 or at least 400.
PreflightStatusRange ==
  preflight = "responded" => (resp.status = 200 \/ resp.status >= 400)

\* ------------------------------------------------------------------------
\* Properties of the handlers
\* ------------------------------------------------------------------------

\* The servers listed in the cache entry of the hash.
CachedSet(its, hash) == { its[hash].servers[k] : k \in 1..Len(its[hash].servers) }

\* C11: after an upload that meets quorum (at least minUploadServers of the
\* peers succeeded), the cache maps the digest of the body to exactly the set
\* of peers whose upload succeeded in that request, failed peers are not
\* listed, and the client receives 200.
UploadCaching ==
  [][ ( /\ req.op = "upload" /\ req.pc = "upstream" /\ req'.pc = "idle"
        /\ Cardinality(Succeeded) >= mgr.minUploadServers )
      => /\ req.hash \in DOMAIN items'
         /\ CachedSet(items', req.hash) = { serverURLs[i] : i \in Succeeded }
         /\ Len(items'[req.hash].servers) = Cardinality(Succeeded)
         /\ resp'.status = 200 ]_vars

\* An upload met a quorum of two with one peer failing: the response is 200
\* and the entry of the digest lists two servers.
UploadCachingWitness ==
  /\ req.op = "upload" /\ req.pc = "idle"
  /\ mgr.minUploadServers = 2
  /\ resp.status = 200
  /\ lastCall.op = "Add"
  /\ DigestA \in DOMAIN items /\ Len(items[DigestA].servers) = 2
  /\ \E url \in { serverURLs[i] : i \in Clients } :
       url \notin CachedSet(items, DigestA) /\ serverStats[url].UploadsFailure = 1

\* The servers that answered the HEAD request with 200.
Found(answers) == { serverURLs[i] : i \in { j \in Clients : answers[j] = 200 } }

\* C12: on GET /<digest> with no live cache entry every peer is asked; when
\* the set S of peers answering 200 is not empty the cache then maps the
\* digest to exactly S and the client gets a 307 whose target is a member of
\* S; when S is empty the client gets 404 and no cache entry is created. On a
\* cache hit the target of the redirect is a member of the cached peer list.
DownloadDiscovery ==
  [][ /\ ( req.op = "download" /\ req.pc = "check" /\ req'.pc # "check" ) =>
           LET S == Found(req'.answers)
           IN /\ \A i \in Clients : req'.answers[i] \in HeadStatuses
              /\ IF S # {}
                 THEN /\ req'.pc = "select"
                      /\ req.hash \in DOMAIN items'
                      /\ CachedSet(items', req.hash) = S
                      /\ Len(items'[req.hash].servers) = Cardinality(S)
                      /\ req'.servers = items'[req.hash].servers
                 ELSE /\ req'.pc = "idle"
                      /\ resp'.status = 404
                      /\ req.hash \notin DOMAIN items'
      /\ ( req.op = "download" /\ req.pc = "select" /\ req'.pc = "idle" ) =>
           /\ resp'.status = 307
           /\ req.hash \in DOMAIN items
           /\ resp'.Location \in { <<url, req.hash>> : url \in CachedSet(items, req.hash) }
           /\ items' = items
    ]_vars

\* A download found the blob on two of the three peers, cached the two and
\* redirected to one of them.
DownloadDiscoveryWitness ==
  /\ req.op = "download" /\ req.pc = "idle"
  /\ resp.status = 307
  /\ lastCall.op = "Add" /\ Len(lastCall.arg) = 2
  /\ DigestA \in DOMAIN items
  /\ resp.Location[1] \in CachedSet(items, DigestA)
  /\ \E i \in Clients : serverURLs[i] \notin CachedSet(items, DigestA)

\* A download hit a live entry written by an earlier request and redirected
\* to a server of its list.
DownloadHitWitness ==
  /\ req.op = "download" /\ req.pc = "idle"
  /\ resp.status = 307
  /\ lastCall.op = "Get" /\ lastCall.branch = "hit"
  /\ resp.Location[1] \in CachedSet(items, DigestA)

\* The value of a counter of a server, 0 for a server without statistics.
Count(ss, url, counter) == IF url \in DOMAIN ss THEN ss[url][counter] ELSE 0

\* The servers a step recorded a successful and a failed delete for.
DeleteSucceeded ==
  { url \in DOMAIN serverStats' :
      Count(serverStats', url, "DeletesSuccess") > Count(serverStats, url, "DeletesSuccess") }

DeleteFailed ==
  { url \in DOMAIN serverStats' :
      Count(serverStats', url, "DeletesFailure") > Count(serverStats, url, "DeletesFailure") }

\* C13: DELETE is issued to every peer of the cached peer list of the digest,
\* or to every configured peer on a cache miss; when at least one peer's
\* delete succeeds the cache entry of the digest is removed and the response
\* is 204; when every delete fails the response is 500 and the cached peer
\* list is left as it was.
DeleteFanOut ==
  [][ /\ ( req.pc = "idle" /\ req'.op = "delete" /\ req'.pc = "forward" ) =>
           req'.servers =
             IF req'.hash \in DOMAIN items /\ ~Expired(items[req'.hash], now)
             THEN items[req'.hash].servers
             ELSE serverURLs
      /\ ( req.op = "delete" /\ req.pc = "forward" /\ req'.pc = "idle" ) =>
           /\ DeleteSucceeded \cup DeleteFailed = { req.servers[k] : k \in 1..Len(req.servers) }
           /\ DeleteSucceeded \cap DeleteFailed = {}
           /\ IF DeleteSucceeded # {}
              THEN /\ req.hash \notin DOMAIN items'
                   /\ resp'.status = 204
              ELSE /\ resp'.status = 500
                   /\ items' = items
    ]_vars

\* A delete went to the two servers of a cached list and not to the third;
\* one of the two failed, the other succeeded: 204 and the entry is gone.
DeleteFanOutWitness ==
  /\ req.op = "delete" /\ req.pc = "idle"
  /\ resp.status = 204
  /\ lastCall.op = "Remove"
  /\ DigestA \notin DOMAIN items
  /\ \E u1, u2 \in DOMAIN serverStats :
       /\ serverStats[u1].DeletesSuccess = 1
       /\ serverStats[u2].DeletesFailure = 1
  /\ \E i \in Clients :
       /\ Count(serverStats, serverURLs[i], "DeletesSuccess") = 0
       /\ Count(serverStats, serverURLs[i], "DeletesFailure") = 0

\* ------------------------------------------------------------------------
\* Properties of the list merge
\* ------------------------------------------------------------------------

\* The items of the catalogs of the servers that answered without error.
Contributed ==
  UNION { { allResults[r].Data[k] : k \in 1..Len(allResults[r].Data) } :
            r \in { q \in 1..Len(allResults) : ~allResults[q].Error } }

\* The tags of a kind in a nip94 array, and the positions of a tag in it.
TagsOfType(tags, tagType) ==
  { k \in 1..Len(tags) : Len(tags[k]) > 0 /\ tags[k][1] = tagType }

\* C21: the merged list has exactly one item per distinct digest present in
\* the catalogs of the peers that answered successfully: a digest listed by
\* several peers, or several times by one peer, appears once, and the fields
\* of its item are those of one contributing item.
ListMergeOnePerDigest ==
  listing.pc = "returned" =>
    LET digests == { it.sha256 : it \in Contributed } \cap ValidDigests
        merged == listing.merged
    IN /\ Len(merged) = Cardinality(digests)
       /\ { merged[k].sha256 : k \in 1..Len(merged) } = digests
       /\ \A k \in 1..Len(merged) :
            \E it \in Contributed :
              it.sha256 = merged[k].sha256 /\ it.type = merged[k].type /\ it.url = merged[k].url

\* C22: every item of the merged list carries a nip94 array with at most one
\* x tag, at most one m tag, and a url tag for every url reported by a
\* contributing item of its digest, no url value appearing twice, whatever
\* the upstream items contain, an existing nip94 array included.
TagsWellFormed ==
  listing.pc = "returned" =>
    \A k \in 1..Len(listing.merged) :
      LET tags == listing.merged[k].nip94
          urlTags == TagsOfType(tags, "url")
      IN /\ Cardinality(TagsOfType(tags, "x")) <= 1
         /\ Cardinality(TagsOfType(tags, "m")) <= 1
         /\ \A a, b \in urlTags : tags[a] = tags[b] => a = b
         /\ \A it \in Contributed :
              ( it.sha256 = listing.merged[k].sha256 /\ it.url # "" ) =>
                \E a \in urlTags : tags[a] = <<"url", it.url>>

\* C23: an upstream item without a valid sha256 field, a string of 64 hex
\* characters, does not appear in the merged list and contributes no url tag.
ListMergeDropsInvalid ==
  listing.pc = "returned" =>
    \A k \in 1..Len(listing.merged) :
      LET tags == listing.merged[k].nip94
      IN /\ listing.merged[k].sha256 \in ValidDigests
         /\ \A a \in TagsOfType(tags, "url") :
              \E it \in Contributed :
                /\ it.sha256 \in ValidDigests
                /\ \/ tags[a] = <<"url", it.url>>
                   \/ \E b \in 1..Len(it.nip94) : it.nip94[b] = tags[a]

\* ------------------------------------------------------------------------
\* Properties of the handlers and the statistics
\* ------------------------------------------------------------------------

\* C24: a download is redirected only to a server that is healthy in the
\* statistics at the time of the selection and that holds the file: a server
\* marked unhealthy is never the target of the redirect.
RedirectOnlyHealthy ==
  [][ ( /\ req.op = "download" /\ req.pc = "select" /\ req'.pc = "idle"
        /\ resp'.status = 307 )
      => /\ \E k \in 1..Len(req.servers) : req.servers[k] = resp'.Location[1]
         /\ resp'.Location[1] \in DOMAIN serverStats => serverStats[resp'.Location[1]].IsHealthy
    ]_vars

\* What a step added to a counter of a server.
Added(url, counter) ==
  IF counter = "none" THEN 0
  ELSE Count(serverStats', url, counter) - Count(serverStats, url, counter)

\* C25: when the handler of an upload or a mirror answers, each peer the
\* operation was dispatched to has received exactly one record of the
\* operation kind, a success when its request succeeded and a failure when it
\* failed, and a peer it was not dispatched to has received none.
RecordPerDispatched ==
  [][ ( req.op \in {"upload", "mirror"} /\ req.pc = "upstream" /\ req'.pc = "idle" ) =>
        \A i \in Clients :
          LET successes == Added(serverURLs[i], SuccessCounter(req.op))
              failures == Added(serverURLs[i], FailureCounter(req.op))
          IN IF i \in Dispatched(fan.kind) /\ tasks[i].state = "done"
             THEN IF tasks[i].outcome.ok
                  THEN successes = 1 /\ failures = 0
                  ELSE successes = 0 /\ failures = 1
             ELSE successes = 0 /\ failures = 0
    ]_vars

\* ------------------------------------------------------------------------
\* Properties of the authorization check
\* ------------------------------------------------------------------------

\* The expiration tag parses as Unix seconds and lies strictly after the time
\* of the call.
NotExpired(event, at) == event.expiration.tag = "unix" /\ event.expiration.unix > at

\* C26: a request whose signed event has an expiration tag that is not
\* strictly in the future, or no parsable expiration tag, is rejected with
\* 401 by ValidateAuth.
AuthExpiry ==
  (auth.called /\ auth.header.form = "Nostr" /\ ~NotExpired(auth.header.event, auth.at))
    => auth.ret.Code = 401

\* The event passes every check that comes before the allow-list: kind,
\* public key, signature, verb and expiration.
ValidEvent(event, requiredVerb, at) ==
  /\ event.Kind = 24242
  /\ PubKeyLen(event.PubKey) = 64 /\ IsHex(event.PubKey)
  /\ event.sig = "valid"
  /\ event.t = requiredVerb
  /\ NotExpired(event, at)

\* The header or the event fails one of the checks C27 lists for 401.
Unauthorized(call) ==
  \/ call.header.form # "Nostr"
  \/ call.header.event.Kind # 24242
  \/ PubKeyLen(call.header.event.PubKey) # 64 \/ ~IsHex(call.header.event.PubKey)
  \/ call.header.event.sig # "valid"
  \/ call.header.event.t # call.requiredVerb

\* C27: a missing or malformed header, a wrong kind, a bad public key, an
\* invalid signature or a t tag other than the required verb yields 401 (also
\* when the key is not allowed: the allow-list comes last); a valid event
\* whose key is not in a non-empty allow-set yields 403.
AuthMapping ==
  auth.called =>
    /\ Unauthorized(auth) => auth.ret.Code = 401
    /\ ( /\ ValidEvent(auth.header.event, auth.requiredVerb, auth.at)
         /\ auth.header.form = "Nostr"
         /\ auth.allowedPubkeys # {}
         /\ ToLower(auth.header.event.PubKey) \notin auth.allowedPubkeys )
       => auth.ret.Code = 403

\* ------------------------------------------------------------------------
\* Properties of the catch-all route
\* ------------------------------------------------------------------------

\* C28: for a request path <digest>.<ext> the cache key is the digest alone,
\* the 307 redirect goes to <selected peer>/<digest>.<ext> and the proxied
\* HEAD request is made for <digest>.<ext>: the step that answers the request
\* uses the path as the client sent it.
ExtensionPreserved ==
  [][ (req.pc = "select" /\ req'.pc = "idle") =>
        /\ \A hash \in DOMAIN items' : Len(hash) = HashLen
        /\ (req.op = "download" /\ resp'.status = 307) =>
             resp'.Location = <<resp'.Location[1], routed.path>>
        /\ (req.op = "head" /\ routed'.head # << >>) =>
             routed'.head = <<routed'.head[1], routed.path>> ]_vars

\* ------------------------------------------------------------------------
\* Properties of the readiness signal
\* ------------------------------------------------------------------------

\* The configured peers whose statistics say healthy.
HealthyPeers(ss) ==
  { i \in Clients : serverURLs[i] \in DOMAIN ss /\ ss[serverURLs[i]].IsHealthy }

\* C29: GET /health answers 200 exactly when the number of healthy peers is at
\* least min_upload_servers, the memory in use is below max_memory_bytes and
\* the number of goroutines is below max_goroutines, and 503 otherwise; after
\* startup and before any traffic every configured peer is healthy; and
\* InitializeServers leaves every existing entry of the statistics as it is.
Readiness ==
  [][ /\ health'.calls # health.calls =>
           /\ health'.status \in {200, 503}
           /\ health'.status = 200 <=>
                /\ Cardinality(HealthyPeers(serverStats)) >= mgr.minUploadServers
                /\ health'.memoryBytes < MaxMemoryBytes
                /\ health'.goroutines < MaxGoroutines
           /\ TotalRecorded(serverStats) = 0 => HealthyPeers(serverStats) = Clients
      /\ (statCall.op = "New" /\ statCall'.op # "New") => HealthyPeers(serverStats') = Clients
      /\ statCall'.op = "InitializeServers" =>
           \A u \in DOMAIN serverStats :
             u \in DOMAIN serverStats' /\ serverStats'[u] = serverStats[u] ]_vars

\* GET /health was answered 503 with memory and goroutines below their
\* limits: too few peers were healthy.
ReadinessWitness ==
  /\ health.calls > 0 /\ health.status = 503
  /\ health.memoryBytes < MaxMemoryBytes /\ health.goroutines < MaxGoroutines
  /\ health.healthy_count < mgr.minUploadServers
  /\ HealthyPeers(serverStats) # Clients

\* ------------------------------------------------------------------------
\* Properties of the fan-out: waiting and collecting
\* ------------------------------------------------------------------------

\* The peers a call of UploadParallel, UploadParallelStreaming or
\* MirrorParallel sends a request to.
PeersOf(kind) ==
  IF kind = "mirror" THEN { i \in Clients : mgr.SupportsMirror[i] } ELSE Clients

\* The results on resultChan that come from a peer.
ResultsOf(idx) == { k \in 1..Len(resultChan) : resultChan[k].ServerURL = serverURLs[idx] }

PipeFailureTolerance ==
  [][ (producer.pc = "write" /\ producer' # producer) =>
        LET idx == producer.writer
            written == Write(writers[idx], tasks[idx].state = "done", body[producer.read])
        IN /\ ~written.err /\ written.n = 1
           /\ producer'.pc \in {"write", "read"}
           /\ writers[idx].err => writers'[idx] = writers[idx]
           /\ (~writers[idx].err /\ ~writers[idx].closed /\ tasks[idx].state = "done") =>
                /\ writers'[idx].err /\ writers'[idx].closed /\ writers'[idx].pipe = "error"
                /\ writers'[idx].data = writers[idx].data ]_vars

\* A pipe failed on its first chunk and the copy went on to read the second.
PipeFailureToleranceWitness ==
  \E i \in Clients :
    /\ writers[i].err /\ writers[i].pipe = "error" /\ writers[i].got = 0
    /\ producer.read = 2
    /\ \E j \in Clients : writers[j].got = 2

\* C32: in a streaming upload, whatever the peers do, once the copying
\* goroutine is through every pipe writer is closed, cleanly or with its
\* error; every peer task ends and the call returns; and the copy is never
\* left waiting on the pipe of a task that has ended: it comes to its end too.
StreamingTerminates ==
  /\ [](producer.pc = "done" =>
          \A i \in Clients : writers[i].closed /\ writers[i].pipe \in {"closed", "error"})
  /\ [](fan.pc = "returned" => \A i \in Clients : tasks[i].state = "done")
  /\ (fan.kind = "streaming" /\ fan.pc = "wait") ~> (fan.pc = "returned")
  /\ (fan.kind = "streaming") ~> (producer.pc = "done")

\* The call has returned and the copy is through; one peer ended before it
\* had taken the whole body, another took it all.
StreamingTerminatesWitness ==
  /\ fan.kind = "streaming" /\ fan.pc = "returned" /\ producer.pc = "done"
  /\ Len(body) = 2
  /\ \E i, j \in Clients :
       /\ writers[i].pipe = "error" /\ writers[i].got < Len(body)
       /\ writers[j].pipe = "closed" /\ writers[j].got = Len(body)

\* C33: in a streaming upload the chunks delivered to a peer's pipe are at
\* every moment the first chunks of the body, in order; a pipe closed cleanly
\* after a copy without error has been given the whole body; and the copy has
\* read at most one chunk more than any pipe that has not failed has taken.
BroadcastIntegrity ==
  fan.kind = "streaming" =>
    \A i \in Clients :
      /\ Len(writers[i].data) <= Len(body)
      /\ writers[i].data = SubSeq(body, 1, Len(writers[i].data))
      /\ writers[i].got = Len(writers[i].data)
      /\ (writers[i].pipe = "closed" /\ ~stream.copyErr) => writers[i].data = body
      /\ (~writers[i].err /\ ~writers[i].closed) => producer.read - Len(writers[i].data) <= 1

\* The copy is over without error: one pipe was closed cleanly with the two
\* chunks of the body, another failed after the first chunk.
BroadcastIntegrityWitness ==
  /\ fan.kind = "streaming" /\ producer.pc = "done" /\ ~stream.copyErr
  /\ Len(body) = 2
  /\ \E i, j \in Clients :
       /\ writers[i].pipe = "closed" /\ writers[i].data = body
       /\ writers[j].pipe = "error" /\ Len(writers[j].data) = 1

\* C34: when the deadline passes during a streaming upload, every task whose
\* request is still running ends with a failure without status, which is
\* among the results; the call returns; and the peer tasks and the copying
\* goroutine all come to their end.
Cancellation ==
  /\ [][ \A i \in Clients :
           (stream.cancelled /\ tasks[i].state = "running" /\ tasks'[i].state = "done") =>
             /\ ~tasks'[i].outcome.ok /\ tasks'[i].outcome.status = 0
             /\ resultChan' = Append(resultChan, UploadResult(i, [ok |-> FALSE, status |-> 0])) ]_vars
  /\ [](fan.pc = "returned" => Len(resultChan) = Len(serverURLs))
  /\ (stream.cancelled /\ fan.pc = "wait") ~> (fan.pc = "returned")
  /\ stream.cancelled ~> (producer.pc = "done" /\ \A i \in Clients : tasks[i].state = "done")

\* ------------------------------------------------------------------------
\* Properties of a DELETE that races with lookups
\* ------------------------------------------------------------------------

\* C35: once the DELETE has answered 204 and no lookup of the hash is in
\* flight, the cache has no entry for the hash that lists a server on which
\* the DELETE succeeded.
DeleteLookupRace ==
  (race.del.pc = "done" /\ race.del.status = 204 /\ race.get.pc \in {"idle", "done"})
    => \/ DigestA \notin DOMAIN items
       \/ \A k \in 1..Len(items[DigestA].servers) :
            items[DigestA].servers[k] \notin race.del.succeeded

\* ------------------------------------------------------------------------
\* Properties of the record of a download
\* ------------------------------------------------------------------------

\* C36: the step of HandleDownload that chooses the redirect target records a
\* download success for the target: its download counter goes up by one, its
\* consecutive failures are 0 and it is healthy after the step, whatever its
\* upload counters say; the step sends no request and changes no other server.
DownloadRecordedAtRedirect ==
  [][ ( /\ req.op = "download" /\ req.pc = "select" /\ req'.pc = "idle"
        /\ resp'.status = 307 )
      => LET target == resp'.Location[1]
             before == GetOrCreateLocked(serverStats, target)
         IN /\ statCall' = [op |-> "RecordSuccess", url |-> target, opType |-> "download"]
            /\ serverStats'[target].Downloads = before[target].Downloads + 1
            /\ serverStats'[target].ConsecutiveFailures = 0
            /\ serverStats'[target].IsHealthy
            /\ \A c \in Counters \ {"Downloads"} :
                 serverStats'[target][c] = before[target][c]
            /\ \A url \in DOMAIN serverStats \ {target} : serverStats'[url] = serverStats[url]
    ]_vars

\* A server whose uploads all failed, max_failures of them in a row, is
\* healthy again right after a download was redirected to it.
DownloadRecordedAtRedirectWitness ==
  /\ resp.status = 307
  /\ statCall = [op |-> "RecordSuccess", url |-> resp.Location[1], opType |-> "download"]
  /\ LET stats == serverStats[resp.Location[1]]
     IN /\ stats.UploadsSuccess = 0
        /\ stats.UploadsFailure >= maxFailures
        /\ stats.Downloads = 1
        /\ stats.IsHealthy /\ stats.ConsecutiveFailures = 0

\* ------------------------------------------------------------------------
\* Properties of the status of a failed upload or mirror
\* ------------------------------------------------------------------------

\* C37: when UploadParallel or MirrorParallel returns an error, the status
\* HandleUpload or HandleMirror sends to the client is 400 or above, whatever
\* the statuses of the servers that failed.
QuorumFailureStatus ==
  [][ ( /\ req.op \in {"upload", "mirror"} /\ req.pc = "upstream" /\ fan.pc = "returned"
        /\ req'.pc = "idle" /\ ret.err.kind # "nil" )
      => resp'.status >= 400
    ]_vars

\* ------------------------------------------------------------------------
\* Properties of the lifetime of a cache entry
\* ------------------------------------------------------------------------

\* C39: a Get that hits, an AddServer on a live entry and a RemoveServer that
\* leaves servers set the last access of the entry to now and keep its
\* creation time; Add, and AddServer on an absent or expired key, create the
\* entry with creation time now; no call changes the creation time of another
\* entry; a Get on an entry created more than ttl ago returns absent however
\* recently the entry was read.
LifetimeFromCreation ==
  [][ AnyCallStep =>
        LET h == SlotOf(lastCall'.path)
        IN /\ lastCall'.branch \in {"hit", "present", "append", "kept"}
                => /\ h \in DOMAIN items /\ h \in DOMAIN items'
                   /\ items'[h].createdAt = items[h].createdAt
                   /\ items'[h].lastAccess = now
           /\ ( \/ lastCall'.op = "Add"
                \/ (lastCall'.op = "AddServer" /\ lastCall'.branch \in {"store", "evict", "expired"}) )
                => /\ h \in DOMAIN items'
                   /\ items'[h].createdAt = now
           /\ (lastCall'.op = "AddServer" /\ lastCall'.branch \in {"store", "evict", "expired"})
                => (h \notin DOMAIN items \/ now - items[h].createdAt > ttl)
           /\ \A k \in (DOMAIN items \cap DOMAIN items') \ {h} :
                items'[k].createdAt = items[k].createdAt
           /\ ( /\ lastCall'.op = "Get" /\ h \in DOMAIN items
                /\ now - items[h].createdAt > ttl )
                => (~lastCall'.ret.ok /\ h \notin DOMAIN items')
    ]_vars

\* An entry that was read after its creation and within the last ttl, and was
\* created more than ttl ago.
LifetimeFromCreationWitness ==
  \E h \in DOMAIN items :
    /\ items[h].lastAccess > items[h].createdAt
    /\ now - items[h].lastAccess <= ttl
    /\ now - items[h].createdAt > ttl

\* ------------------------------------------------------------------------
\* Properties of a streaming upload whose body fails
\* ------------------------------------------------------------------------

\* C38: after a failed read of the body the copying goroutine closes every
\* writer that has not failed without an error and leaves the failed ones as
\* they are; and UploadParallelStreaming returns an error exactly when fewer
\* than min_upload_servers results are successes, with the servers of the
\* successes, whether the copy failed or not.
StreamErrorIgnored ==
  [][ /\ ( /\ fan.kind = "streaming" /\ stream.copyErr
           /\ producer.pc = "close" /\ producer'.pc = "done" )
           => \A i \in Clients :
                IF writers[i].err \/ writers[i].closed
                THEN writers'[i] = writers[i]
                ELSE /\ writers'[i].pipe = "closed" /\ writers'[i].closed
                     /\ ~writers'[i].err
                     /\ writers'[i].data = writers[i].data
      /\ (fan.kind = "streaming" /\ fan.pc = "wait" /\ fan'.pc = "returned")
           => LET successes == SelectSeq(resultChan, LAMBDA result : result.Success)
              IN /\ (ret'.err.kind = "nil") <=> (Len(successes) >= mgr.minUploadServers)
                 /\ Len(ret'.servers) = Len(successes)
    ]_vars

\* The read of the second chunk failed; a pipe was closed cleanly after the
\* first chunk, its server accepted the upload, and the call returned no error.
StreamErrorIgnoredWitness ==
  /\ fan.kind = "streaming" /\ fan.pc = "returned" /\ producer.pc = "done"
  /\ stream.copyErr /\ Len(body) = 2
  /\ ret.err.kind = "nil"
  /\ \E i \in Clients :
       /\ writers[i].pipe = "closed" /\ Len(writers[i].data) = 1
       /\ tasks[i].outcome.ok

\* ------------------------------------------------------------------------
\* Properties of the quorum over capable servers
\* ------------------------------------------------------------------------

\* C40: MirrorParallel returns no error exactly when at least
\* min_upload_servers of the mirror-capable servers succeeded, so with fewer
\* capable servers than that (and at least one) it returns an error whatever
\* they answered; UploadPreflightParallel does the same over the servers that
\* support HEAD /upload, with the same min_upload_servers.
CapableQuorum ==
  [][ /\ (fan.kind = "mirror" /\ fan.pc = "wait" /\ fan'.pc = "returned")
           => LET capable == { i \in Clients : mgr.SupportsMirror[i] }
                  succeeded == { i \in capable : tasks[i].outcome.ok }
              IN /\ (ret'.err.kind = "nil") <=> (Cardinality(succeeded) >= mgr.minUploadServers)
                 /\ Cardinality(capable) < mgr.minUploadServers => ret'.err.kind # "nil"
                 /\ \A i \in Clients \ capable : tasks[i].state = "idle"
      /\ (preflight = "wait" /\ preflight' = "returned")
           => LET capable == { i \in Clients : supportsUploadHead[i] }
                  accepted == { i \in capable : /\ ~preflightTasks[i].outcome.failed
                                                /\ preflightTasks[i].outcome.status = 200 }
              IN /\ (preflightRet'.err.kind = "nil")
                      <=> (Cardinality(accepted) >= mgr.minUploadServers)
                 /\ Cardinality(capable) < mgr.minUploadServers => preflightRet'.err.kind # "nil"
                 /\ \A i \in Clients \ capable : preflightTasks[i].state = "idle"
    ]_vars

\* Two of three servers support mirror and HEAD /upload, min_upload_servers is
\* 3: both accepted the mirror and both would accept the upload, and both
\* calls returned an error.
CapableQuorumWitness ==
  /\ mgr.minUploadServers = 3
  /\ fan.kind = "mirror" /\ fan.pc = "returned" /\ ret.err.kind # "nil"
  /\ Cardinality({ i \in Clients : mgr.SupportsMirror[i] }) = 2
  /\ \A i \in Clients : mgr.SupportsMirror[i] => tasks[i].outcome.ok
  /\ preflight = "returned" /\ preflightRet.err.kind # "nil"
  /\ Cardinality(uploadHeadCapable) = 2
  /\ \A i \in uploadHeadCapable : /\ ~preflightTasks[i].outcome.failed
                                  /\ preflightTasks[i].outcome.status = 200

====
